---------------------------- MODULE Spec2Model ----------------------------
(***************************************************************************)
(* A model of the symbolic core of OpenSBLI / AutoFD:                      *)
(*   - SimulationEquations.sort_dictionary, the dependency scheduler of    *)
(*     the constituent relations (src/opensbli/core/opensbliequations.py), *)
(*   - the Einstein-notation expansion engine (src/autofd/equations.py),   *)
(*   - KernelCounter, set_equations and sort_constants of                  *)
(*     src/opensbli/core/block.py.                                         *)
(* Each is a sequential computation; the model runs one call of it (for    *)
(* KernelCounter, any sequence of calls), statement group by statement     *)
(* group, from inputs chosen in Init.                                      *)
(***************************************************************************)
EXTENDS Integers, Sequences, FiniteSets, TLC

VARIABLES
    sd_pc,           \* position in sort_constituents / sort_dictionary
    sd_arg,          \* the `order` argument: the list of known names
    sd_ta,           \* bases of cls.time_advance_arrays
    sd_dict,         \* new_dictionary: key -> required_data_sets
    sd_order,        \* the local list `order`
    sd_input_order,  \* the local `input_order`
    sd_key_list,     \* the local `key_list`
    sd_iter,         \* the local `iter_count`
    sd_result,       \* the list returned to the caller
    sd_report        \* what the failure prints and raises

sd_vars == <<sd_pc, sd_arg, sd_ta, sd_dict, sd_order, sd_input_order,
             sd_key_list, sd_iter, sd_result, sd_report>>

VARIABLES
    ex_pc,           \* position in EinsteinExpansion.__init__
    ex_ndim,         \* self.ndim
    ex_lhs,          \* expression.lhs, its leaves replaced by indexed_dict
    ex_rhs,          \* expression.rhs, likewise
    ex_strict,       \* whether the array library rejects what it need not accept
    ex_arrays,       \* ndimarrays: indexed placeholder -> array
    ex_eval_lhs,     \* (evaluated_lhs, lhs_ind)
    ex_eval_rhs,     \* (evaluated_rhs, rhs_ind)
    ex_expanded      \* self.expanded

ex_vars == <<ex_pc, ex_ndim, ex_lhs, ex_rhs, ex_strict, ex_arrays,
             ex_eval_lhs, ex_eval_rhs, ex_expanded>>

VARIABLES
    ac_pc,           \* position in a call of apply_contraction_indexed
    ac_ndim,         \* the extent of every axis of the array
    ac_outer,        \* outer_indices
    ac_tensor,       \* tensor_indices
    ac_array,        \* array
    ac_out           \* the array returned

ac_vars == <<ac_pc, ac_ndim, ac_outer, ac_tensor, ac_array, ac_out>>

VARIABLES
    mt_pc,           \* position in lines 356-421 of EinsteinExpansion.__init__
    mt_ndim,         \* self.ndim
    mt_atoms,        \* expression.atoms(EinsteinTerm)
    mt_fns,          \* expression.atoms(Function)
    mt_coord,        \* the local `coord`
    mt_coordinates,  \* the local `coordinates`, <<>> while it is unbound
    mt_fields,       \* field leaf -> the tuple it is made a function of
    mt_dict,         \* the Function nodes that are keys of indexed_dict
    mt_order,        \* the Function nodes in the order they were entered
    mt_to_eval,      \* the local `to_eval`
    mt_number        \* self.indexed_object_number

mt_vars == <<mt_pc, mt_ndim, mt_atoms, mt_fns, mt_coord, mt_coordinates,
             mt_fields, mt_dict, mt_order, mt_to_eval, mt_number>>

VARIABLES
    sp_pc,           \* position in a call of split_index
    sp_arrays,       \* the argument `arrays`: the list `functions`
    sp_index,        \* the argument `index`: a flat coordinate tuple
    sp_split,        \* the dictionary returned
    kc_pc,           \* whether a KernelCounter is constructed
    kc_kernel_counter,  \* self.kernel_counter
    kc_stored_counter,  \* self.stored_counter
    kc_last,         \* history: the name of the last operation
    kc_at_store,     \* history: kernel_counter at the last store, 0 if none
    se_pc,           \* position in set_equations / sort_equation_classes
    se_input,        \* history: the list as it was passed in
    se_list,         \* self.list_of_equation_classes
    se_no,           \* the index the enumeration yields next
    sc_pc,           \* position in sort_constants
    sc_dict,         \* constants_dictionary.values(), in iteration order
    sc_known,        \* known_constants
    sc_unknown       \* unknown_constants

bk_vars == <<sp_pc, sp_arrays, sp_index, sp_split,
             kc_pc, kc_kernel_counter, kc_stored_counter, kc_last, kc_at_store,
             se_pc, se_input, se_list, se_no,
             sc_pc, sc_dict, sc_known, sc_unknown>>

vars == <<sd_vars, ex_vars, ac_vars, mt_vars, bk_vars>>

(***************************************************************************)
(* Bounds of the inputs.  Names are numbers; 0 is a name that is never a   *)
(* key of the dictionary, 1..MaxKey are the keys, numbered by their        *)
(* position in the iteration order of dictionary.keys().                   *)
(***************************************************************************)
MaxKey == 3

\* the largest ndim of an expansion
MaxDim == 3

\* the number of constants of a constants dictionary
MaxConst == 3

\* the length of the longest list of equation classes
MaxClasses == 4

\* the largest value a kernel counter is driven to
MaxCount == 9

\* `if iter_count > 1000`
RoundCap == 1000

Range(s) == {s[i] : i \in 1..Len(s)}

\* a set of numbers as a list without duplicates: list(set(order))
RECURSIVE SetToList(_)
SetToList(S) ==
    IF S = {} THEN <<>>
    ELSE LET m == CHOOSE x \in S : \A y \in S : x <= y
         IN  <<m>> \o SetToList(S \ {m})

\* dictionary.keys(), in the dictionary's iteration order
DictKeys(d) == [i \in 1..Cardinality(DOMAIN d) |-> i]

\* a bug that forgets the bases of the time-advance arrays
KnownOrder_WithoutTimeAdvance(arg, ta) == SetToList(Range(arg))

\* order = flatten(order + [a.base for a in flatten(cls.time_advance_arrays)])
\* order = list(set(order))
KnownOrder(arg, ta) == SetToList(Range(arg) \cup ta)

\* a bug that takes the length before the duplicates are removed
InputOrder_BeforeSet(arg, ta) == Len(arg) + Cardinality(ta)

\* input_order = len(order)
InputOrder(arg, ta) == Len(KnownOrder(arg, ta))

\* [key for key in dictionary.keys() if key not in order]
KeyList(d, order) ==
    LET in_order == Range(order)
    IN  SelectSeq(DictKeys(d), LAMBDA key : key \notin in_order)

\* a bug that writes any(...) for all(...)
Satisfied_Any(reqs, in_order) == \E req \in reqs : req \in in_order

\* all(req in order for req in y)
Satisfied(reqs, in_order) == \A req \in reqs : req \in in_order

\* a bug that counts the keys selected earlier in the same pass as ordered
Batch_SamePass(d, key_list, order) ==
    LET in_order == Range(order)
        first == {x \in Range(key_list) : Satisfied(d[x], in_order)}
    IN  SelectSeq(key_list, LAMBDA x :
            Satisfied(d[x], in_order \cup {y \in first : y < x}))

\* [x for (x, y) in zipped if all(req in order for req in y)]
Batch(d, key_list, order) ==
    LET in_order == Range(order)
    IN  SelectSeq(key_list, LAMBDA x : Satisfied(d[x], in_order))

\* a bug that never gives up
CapExceeded_Never(n) == FALSE

\* if iter_count > 1000
CapExceeded(n) == n > RoundCap

\* order[input_order:]
Returned(order, input_order) == SubSeq(order, input_order + 1, Len(order))

\* nothing printed, nothing raised
NoReport ==
    [error |-> "", sorted |-> {}, requires |-> {}, flagged |-> {},
     message |-> {}]

\* requires_list[0], as lines 366 and 368 read it
ReportedRequirements(d, key_list) == d[key_list[1]]

\* lines 359-369: `order` is printed, then requires_list[0] ("It requires")
\* and, for each of its members, whether it is in order ("Sorted"); the
\* exception carries the text "Exiting sort evaluations " and no name.
\* With no key left requires_list is empty and requires_list[0] raises
\* IndexError.
Report(d, key_list, order) ==
    IF key_list = <<>>
    THEN [error |-> "IndexError", sorted |-> Range(order), requires |-> {},
          flagged |-> {}, message |-> {}]
    ELSE LET requires == ReportedRequirements(d, key_list)
         IN  [error |-> "ValueError", sorted |-> Range(order),
              requires |-> requires,
              flagged |-> {req \in requires : req \in Range(order)},
              message |-> {}]

(***************************************************************************)
(* Inputs.  Three families of dictionaries:                                *)
(*   - every dictionary over the keys 1..MaxKey in which each key requires *)
(*     at most one name (chains, cycles, self-requirements, requirements   *)
(*     on the name 0 that may be unknown);                                 *)
(*   - the layered dictionaries, in which a key requires any set of names  *)
(*     below it, or any set of names above it (and possibly 0);            *)
(*   - the chains 1 <- 2 <- ... <- n, which need n rounds, for n at the    *)
(*     round cap and one above it.                                         *)
(* The known names come as the `order` argument (possibly with a name      *)
(* twice) and as bases of the time-advance arrays.                         *)
(***************************************************************************)
SingleReqSets == {{}} \cup {{n} : n \in 0..MaxKey}

SmallDicts == [1..MaxKey -> SingleReqSets]

LayeredDicts ==
    {d \in [1..MaxKey -> SUBSET (0..MaxKey)] :
        \/ \A k \in 1..MaxKey : d[k] \subseteq 0..(k - 1)
        \/ \A k \in 1..MaxKey : d[k] \subseteq {0} \cup (k + 1)..MaxKey}

Chain(n) == [k \in 1..n |-> {k - 1}]

ChainDicts == {Chain(RoundCap), Chain(RoundCap + 1)}

KnownInputs == {<< <<0>>, {} >>, << <<1>>, {2} >>, << <<0, 0>>, {2} >>}

SdInit ==
    /\ sd_pc = "call"
    /\ \/ /\ sd_dict \in SmallDicts
          /\ \E k \in KnownInputs : sd_arg = k[1] /\ sd_ta = k[2]
       \/ /\ sd_dict \in LayeredDicts
          /\ sd_arg = <<0>>
          /\ sd_ta \in {{}, {2}}
       \/ /\ sd_dict \in ChainDicts
          /\ sd_arg = <<0>>
          /\ sd_ta = {}
    /\ sd_order = <<>>
    /\ sd_input_order = 0
    /\ sd_key_list = <<>>
    /\ sd_iter = 0
    /\ sd_result = <<>>
    /\ sd_report = NoReport

\* lines 340-351: everything before the while loop
SortBegin ==
    /\ sd_pc = "call"
    /\ LET order == KnownOrder(sd_arg, sd_ta)
       IN  /\ sd_order' = order
           /\ sd_input_order' = InputOrder(sd_arg, sd_ta)
           /\ sd_key_list' = KeyList(sd_dict, order)
    /\ sd_iter' = 0
    /\ sd_pc' = "while"
    /\ UNCHANGED <<sd_arg, sd_ta, sd_dict, sd_result, sd_report>>
    /\ UNCHANGED <<ex_vars, ac_vars, mt_vars, bk_vars>>

\* lines 352-369: one pass through the body of `while key_list`
SortRound ==
    /\ sd_pc = "while"
    /\ sd_key_list # <<>>
    /\ LET order == sd_order \o Batch(sd_dict, sd_key_list, sd_order)
       IN  /\ sd_order' = order
           /\ sd_key_list' = KeyList(sd_dict, order)
    /\ sd_iter' = sd_iter + 1
    /\ sd_pc' = IF CapExceeded(sd_iter + 1) THEN "raise" ELSE "while"
    /\ sd_report' = IF CapExceeded(sd_iter + 1)
                    THEN Report(sd_dict, sd_key_list', sd_order')
                    ELSE sd_report
    /\ UNCHANGED <<sd_arg, sd_ta, sd_dict, sd_input_order, sd_result>>
    /\ UNCHANGED <<ex_vars, ac_vars, mt_vars, bk_vars>>

\* lines 370-371: the loop condition is false, the slice is returned
SortReturn ==
    /\ sd_pc = "while"
    /\ sd_key_list = <<>>
    /\ sd_result' = Returned(sd_order, sd_input_order)
    /\ sd_pc' = "done"
    /\ UNCHANGED <<sd_arg, sd_ta, sd_dict, sd_order, sd_input_order,
                   sd_key_list, sd_iter, sd_report>>
    /\ UNCHANGED <<ex_vars, ac_vars, mt_vars, bk_vars>>

SdNext == SortBegin \/ SortRound \/ SortReturn

(***************************************************************************)
(* Scalars.  An entry of an array is a SymPy expression built from atoms   *)
(* (u0, tau01, ...) with + and *; it is kept here as a polynomial: a       *)
(* function from monomials to non-zero integer coefficients, a monomial    *)
(* being a function from atoms to positive exponents.                      *)
(***************************************************************************)
Atom(base, comp) == [base |-> base, comp |-> comp]

MOne == <<>>

MAtom(a) == [y \in {a} |-> 1]

MMul(a, b) ==
    [y \in DOMAIN a \cup DOMAIN b |->
        (IF y \in DOMAIN a THEN a[y] ELSE 0)
        + (IF y \in DOMAIN b THEN b[y] ELSE 0)]

PConst(c) == IF c = 0 THEN <<>> ELSE [m \in {MOne} |-> c]

PAtom(a) == [m \in {MAtom(a)} |-> 1]

Coef(p, m) == IF m \in DOMAIN p THEN p[m] ELSE 0

PAdd(p, q) ==
    LET nz == {m \in DOMAIN p \cup DOMAIN q : Coef(p, m) + Coef(q, m) # 0}
    IN  [m \in nz |-> Coef(p, m) + Coef(q, m)]

RECURSIVE SumProducts(_, _, _)
SumProducts(pairs, p, q) ==
    IF pairs = {} THEN 0
    ELSE LET e == CHOOSE e \in pairs : TRUE
         IN  p[e[1]] * q[e[2]] + SumProducts(pairs \ {e}, p, q)

PMul(p, q) ==
    LET pairs == (DOMAIN p) \X (DOMAIN q)
        ms == {MMul(e[1], e[2]) : e \in pairs}
        c(m) == SumProducts({e \in pairs : MMul(e[1], e[2]) = m}, p, q)
    IN  [m \in {m \in ms : c(m) # 0} |-> c(m)]

(***************************************************************************)
(* Arrays.  A value is a scalar (arr = FALSE, one entry at the empty       *)
(* tuple) or a dense array: its shape and its entries by coordinate tuple  *)
(* (coordinates count from 0, axes from 1).  err marks a raised exception. *)
(***************************************************************************)
TupleSet(shape) ==
    {t \in [1..Len(shape) -> 0..(MaxDim - 1)] :
        \A p \in 1..Len(shape) : t[p] < shape[p]}

Scalar(p) ==
    [err |-> FALSE, arr |-> FALSE, shape |-> <<>>, data |-> [t \in {<<>>} |-> p]]

Raised == [err |-> TRUE, arr |-> FALSE, shape |-> <<>>, data |-> <<>>]

Rank(a) == Len(a.shape)

\* tensorproduct(a, b): the outer product; a scalar operand scales the other
TensorProduct(a, b) ==
    IF a.err \/ b.err THEN Raised
    ELSE LET shape == a.shape \o b.shape
         IN  [err |-> FALSE,
              arr |-> a.arr \/ b.arr,
              shape |-> shape,
              data |-> [t \in TupleSet(shape) |->
                          PMul(a.data[SubSeq(t, 1, Rank(a))],
                               b.data[SubSeq(t, Rank(a) + 1, Len(shape))])]]

\* the entries of a on the diagonal of the axes group, summed
RECURSIVE DiagonalSum(_, _, _, _)
DiagonalSum(a, axes, t, v) ==
    IF v < 0 THEN PConst(0)
    ELSE LET full == [q \in 1..Rank(a) |->
                        IF q \in axes THEN v
                        ELSE t[Cardinality({r \in 1..q : r \notin axes})]]
         IN  PAdd(DiagonalSum(a, axes, t, v - 1), a.data[full])

\* tensorcontraction(array, axes): the sum over the positions where the
\* axes of the group carry the same coordinate; a result of rank 0 is a
\* scalar.  A single axis is summed over (the full self-contraction of a
\* square); what the library does with a group of more than two axes is
\* its own choice (ex_strict).
TensorContraction(a, axes) ==
    IF a.err THEN Raised
    ELSE IF Cardinality(axes) > 2 /\ ex_strict THEN Raised
    ELSE LET rem == SelectSeq([q \in 1..Rank(a) |-> q],
                              LAMBDA q : q \notin axes)
             shape == [p \in 1..Len(rem) |-> a.shape[rem[p]]]
             n == a.shape[CHOOSE q \in axes : TRUE]
         IN  [err |-> FALSE,
              arr |-> Len(rem) > 0,
              shape |-> shape,
              data |-> [t \in TupleSet(shape) |->
                          DiagonalSum(a, axes, t, n - 1)]]

Occurrences(listofind, x) ==
    Cardinality({p \in 1..Len(listofind) : listofind[p] = x})

\* a bug that removes nothing
remove_repeated_index_KeepAll(listofind) == listofind

\* remove_repeated_index: sum_index[x] is the number of occurrences of x
\* after the first; an index is kept when that number is 0
remove_repeated_index(listofind) ==
    SelectSeq(listofind, LAMBDA x : Occurrences(listofind, x) - 1 = 0)

\* the positions of index in tensor_indices (the tuple `match`)
MatchAxes(tensor_indices, index) ==
    {p \in 1..Len(tensor_indices) : tensor_indices[p] = index}

\* a bug that contracts nothing
apply_contraction_indexed_Unchanged(outer_indices, tensor_indices, array) ==
    array

\* apply_contraction_indexed: one tensorcontraction per contracting index
\* (taken here in the order of their first positions; the sums commute)
RECURSIVE apply_contraction_indexed(_, _, _)
apply_contraction_indexed(outer_indices, tensor_indices, array) ==
    LET contracting_indices == Range(tensor_indices) \ Range(outer_indices)
    IN  IF contracting_indices = {} THEN array
        ELSE LET first == CHOOSE p \in 1..Len(tensor_indices) :
                            /\ tensor_indices[p] \in contracting_indices
                            /\ \A q \in 1..(p - 1) :
                                 tensor_indices[q] \notin contracting_indices
                 index == tensor_indices[first]
             IN  apply_contraction_indexed(
                     outer_indices,
                     SelectSeq(tensor_indices, LAMBDA i : i # index),
                     TensorContraction(array, MatchAxes(tensor_indices, index)))

(***************************************************************************)
(* Expressions, after evaluate_expression has replaced every Einstein term *)
(* and function by its entry of indexed_dict: Indexed leaves (u[i],        *)
(* tau[i,j], KD[i,j]), scalar Einstein terms, integers and products.       *)
(***************************************************************************)
Indexed(base, indices) ==
    [kind |-> "Indexed", base |-> base, indices |-> indices,
     args |-> <<>>, val |-> 0]

EinsteinTerm(name) ==
    [kind |-> "EinsteinTerm", base |-> name, indices |-> <<>>,
     args |-> <<>>, val |-> 0]

Integer(val) ==
    [kind |-> "Integer", base |-> "", indices |-> <<>>,
     args |-> <<>>, val |-> val]

Mul(args) ==
    [kind |-> "Mul", base |-> "", indices |-> <<>>, args |-> args, val |-> 0]

Add(args) ==
    [kind |-> "Add", base |-> "", indices |-> <<>>, args |-> args, val |-> 0]

\* Pow(base, exp); as_base_exp gives args[1] and args[2]
Pow(base, exp) ==
    [kind |-> "Pow", base |-> "", indices |-> <<>>,
     args |-> <<base, exp>>, val |-> 0]

\* an index signature: a list of indices, or None, or a raised exception
IndexList(ind) == [err |-> FALSE, none |-> FALSE, ind |-> ind]

None == [err |-> FALSE, none |-> TRUE, ind |-> <<>>]

IndexRaised == [err |-> TRUE, none |-> TRUE, ind |-> <<>>]

\* flatten(inds) of the signatures that are not None
RECURSIVE FlattenIndices(_)
FlattenIndices(inds) ==
    IF inds = <<>> THEN <<>>
    ELSE (IF Head(inds).none THEN <<>> ELSE Head(inds).ind)
         \o FlattenIndices(Tail(inds))

RECURSIVE get_index_structure(_)

\* get_Mul_indices
get_Mul_indices(term) ==
    LET inds == [k \in 1..Len(term.args) |-> get_index_structure(term.args[k])]
        fin_ind == remove_repeated_index(FlattenIndices(inds))
    IN  IF \E k \in 1..Len(inds) : inds[k].err THEN IndexRaised
        ELSE IF fin_ind # <<>> THEN IndexList(fin_ind)
        ELSE None

\* a bug that takes the signature of the first addend without comparing
get_Add_indices_Unchecked(term) ==
    LET inds == [k \in 1..Len(term.args) |-> get_index_structure(term.args[k])]
    IN  IF \E k \in 1..Len(inds) : inds[k].err THEN IndexRaised
        ELSE inds[1]

\* get_Add_indices: set(x) == set(inds[0]) raises by itself when one of the
\* two is None and the other is not
get_Add_indices(term) ==
    LET inds == [k \in 1..Len(term.args) |-> get_index_structure(term.args[k])]
    IN  IF \E k \in 1..Len(inds) : inds[k].err THEN IndexRaised
        ELSE IF \A k \in 1..Len(inds) : inds[k].none THEN inds[1]
        ELSE IF \E k \in 1..Len(inds) : inds[k].none THEN IndexRaised
        ELSE IF \E k \in 2..Len(inds) : Range(inds[k].ind) # Range(inds[1].ind)
        THEN IndexRaised
        ELSE inds[1]

\* exp.atoms(Indexed): the Indexed objects inside an expression
RECURSIVE AtomsIndexed(_)
AtomsIndexed(e) ==
    IF e.kind = "Indexed" THEN {e}
    ELSE UNION {AtomsIndexed(e.args[k]) : k \in 1..Len(e.args)}

\* get_Pow_indices
get_Pow_indices(term) ==
    LET base == term.args[1]
        exp == term.args[2]
        base_index_struc == get_index_structure(base)
    IN  IF AtomsIndexed(exp) # {} THEN IndexRaised
        ELSE IF base_index_struc.err THEN IndexRaised
        ELSE IF ~base_index_struc.none
        THEN (IF exp = Integer(2) THEN None ELSE IndexRaised)
        ELSE base_index_struc

\* get_index_structure
get_index_structure(term) ==
    IF term.kind = "Indexed"
    THEN IndexList(remove_repeated_index(term.indices))
    ELSE IF term.kind = "Mul" THEN get_Mul_indices(term)
    ELSE IF term.kind = "Add" THEN get_Add_indices(term)
    ELSE IF term.kind = "Pow" THEN get_Pow_indices(term)
    ELSE None

\* the leaves of an expression: expression.atoms(EinsteinTerm) and the
\* function nodes, as their indexed placeholders
RECURSIVE Leaves(_)
Leaves(e) ==
    IF e.kind \in {"Indexed", "EinsteinTerm"} THEN {e}
    ELSE UNION {Leaves(e.args[k]) : k \in 1..Len(e.args)}

\* EinsteinTerm.et_expanded: str.replace puts the number of the first
\* occurrence of an index at every place the index has in the name
et_expanded(indices, index) ==
    [p \in 1..Len(indices) |->
        index[CHOOSE q \in 1..Len(indices) :
                /\ indices[q] = indices[p]
                /\ \A r \in 1..(q - 1) : indices[r] # indices[p]]]

\* a bug that fills the delta with ones
KroneckerDelta_AllOnes(index) == 1

\* SymPy's KroneckerDelta(*index), line 233
KroneckerDelta(index) == IF index[1] = index[2] THEN 1 ELSE 0

\* a bug that loses the sign of the permutation
LeviCivita_Unsigned(index) ==
    LET d == ((index[2] - index[1]) * (index[3] - index[1])
              * (index[3] - index[2])) \div 2
    IN  d * d

\* SymPy's LeviCivita(*index), line 261: eval_levicivita, the product of
\* the differences of the arguments over the factorials, here of three
LeviCivita(index) ==
    ((index[2] - index[1]) * (index[3] - index[1]) * (index[3] - index[2]))
        \div 2

\* EinsteinTerm.ndimarray (of a field: every entry a function of the
\* coordinates), KD.ndimarray and LC.ndimarray
ndimarray(leaf, ndim) ==
    LET shape == [p \in 1..Len(leaf.indices) |-> ndim]
    IN  IF leaf.kind = "EinsteinTerm" THEN Scalar(PAtom(Atom(leaf.base, <<>>)))
        ELSE [err |-> FALSE,
              arr |-> TRUE,
              shape |-> shape,
              data |-> [index \in TupleSet(shape) |->
                          IF leaf.base = "KD"
                          THEN PConst(KroneckerDelta(index))
                          ELSE IF leaf.base = "LC"
                          THEN PConst(LeviCivita(index))
                          ELSE PAtom(Atom(leaf.base,
                                          et_expanded(leaf.indices, index)))]]

\* the result of an evaluation: (evaluated, indices), or a raised exception;
\* with it, the dictionary of arrays as the evaluation leaves it, and alias:
\* <<leaf>> when `evaluated` is the very array object stored for that leaf
Evaluated(val, indices, arrays, alias) ==
    [err |-> val.err \/ indices.err, val |-> val,
     none |-> indices.none, ind |-> indices.ind,
     arrays |-> arrays, alias |-> alias]

EvalRaised ==
    [err |-> TRUE, val |-> Raised, none |-> TRUE, ind |-> <<>>,
     arrays |-> <<>>, alias |-> <<>>]

\* the content of an evaluated argument at the time it is read
ValueOf(arg, arrays) ==
    IF arg.alias # <<>> THEN arrays[arg.alias[1]] ELSE arg.val

\* evaluated + arg: SymPy addition of scalars, entry by entry for arrays
ArrayAdd(a, b) ==
    IF a.err \/ b.err \/ a.shape # b.shape THEN Raised
    ELSE [err |-> FALSE, arr |-> a.arr, shape |-> a.shape,
          data |-> [t \in TupleSet(a.shape) |-> PAdd(a.data[t], b.data[t])]]

\* evaluated**2: SymPy power of a scalar, entry by entry for arrays
ArraySquare(a) ==
    IF a.err THEN Raised
    ELSE [err |-> FALSE, arr |-> a.arr, shape |-> a.shape,
          data |-> [t \in TupleSet(a.shape) |-> PMul(a.data[t], a.data[t])]]

\* Pow(evaluated, e) of a scalar with an integer exponent
RECURSIVE ScalarPow(_, _)
ScalarPow(p, n) == IF n = 0 THEN PConst(1) ELSE PMul(p, ScalarPow(p, n - 1))

Reverse(ind) == [p \in 1..Len(ind) |-> ind[Len(ind) + 1 - p]]

\* a bug that adds a reversed addend without transposing it
TransposeAdd_Untransposed(evaluated, arr) ==
    [err |-> FALSE, arr |-> TRUE, shape |-> evaluated.shape,
     data |-> [index \in TupleSet(evaluated.shape) |->
                 PAdd(evaluated.data[index], arr.data[index])]]

\* lines 595-597: evaluated[index] = evaluated[index] + arr[transpose]
TransposeAdd(evaluated, arr) ==
    [err |-> FALSE, arr |-> TRUE, shape |-> evaluated.shape,
     data |-> [index \in TupleSet(evaluated.shape) |->
                 PAdd(evaluated.data[index],
                      arr.data[<<index[2], index[1]>>])]]

\* add_args, the loop from the addend `number` on; an assignment to
\* evaluated[index] writes into the array object, which is an array of the
\* dictionary when the leading addend is an unchanged leaf
RECURSIVE add_args_from(_, _, _, _, _)
add_args_from(arg_evals, number, evaluated, alias, arrays) ==
    LET leading == arg_evals[1]
    IN  IF number > Len(arg_evals)
        THEN Evaluated(evaluated,
                       IF leading.none THEN None ELSE IndexList(leading.ind),
                       arrays, alias)
        ELSE LET arg == arg_evals[number]
                 arr == ValueOf(arg, arrays)
             IN  IF leading.none = arg.none /\ leading.ind = arg.ind
                 THEN add_args_from(arg_evals, number + 1,
                                    ArrayAdd(evaluated, arr), <<>>, arrays)
                 ELSE IF arg.none THEN EvalRaised
                 ELSE IF /\ ~leading.none
                         /\ leading.ind = Reverse(arg.ind)
                         /\ Len(arg.ind) = 2
                 THEN LET sum == TransposeAdd(evaluated, arr)
                      IN  add_args_from(
                              arg_evals, number + 1, sum, alias,
                              IF alias # <<>>
                              THEN [arrays EXCEPT ![alias[1]] = sum]
                              ELSE arrays)
                 ELSE EvalRaised

RECURSIVE SumScalars(_, _)
SumScalars(arg_evals, k) ==
    IF k = 0 THEN PConst(0)
    ELSE PAdd(SumScalars(arg_evals, k - 1), arg_evals[k].val.data[<<>>])

\* add_args
add_args(arg_evals, arrays) ==
    IF Len(arg_evals) = 1
    THEN Evaluated(arg_evals[1].val,
                   IF arg_evals[1].none THEN None
                   ELSE IndexList(arg_evals[1].ind),
                   arrays, arg_evals[1].alias)
    ELSE IF \A k \in 1..Len(arg_evals) : arg_evals[k].none
    THEN Evaluated(Scalar(SumScalars(arg_evals, Len(arg_evals))), None,
                   arrays, <<>>)
    ELSE add_args_from(arg_evals, 2, ValueOf(arg_evals[1], arrays),
                       arg_evals[1].alias, arrays)

RECURSIVE evaluate_Indexed_expression(_, _)

\* evaluate_ADD_expression, from its k-th argument on
RECURSIVE evaluate_ADD_from(_, _, _, _)
evaluate_ADD_from(term, arrays, k, arg_evals) ==
    IF k > Len(term.args) THEN add_args(arg_evals, arrays)
    ELSE LET arg == evaluate_Indexed_expression(term.args[k], arrays)
         IN  IF arg.err THEN EvalRaised
             ELSE evaluate_ADD_from(term, arg.arrays, k + 1,
                                    Append(arg_evals, arg))

evaluate_ADD_expression(term, arrays) ==
    evaluate_ADD_from(term, arrays, 1, <<>>)

\* evaluate_MUL_expression, from its k-th argument on
RECURSIVE evaluate_MUL_from(_, _, _, _, _)
evaluate_MUL_from(term, arrays, k, out_expression, tensorprod_indices) ==
    IF k > Len(term.args)
    THEN LET indices == remove_repeated_index(tensorprod_indices)
             out == apply_contraction_indexed(indices, tensorprod_indices,
                                              out_expression)
         IN  IF out.err THEN EvalRaised
             ELSE Evaluated(out,
                            IF indices # <<>> THEN IndexList(indices)
                            ELSE None,
                            arrays, <<>>)
    ELSE LET arg == evaluate_Indexed_expression(term.args[k], arrays)
         IN  IF arg.err THEN EvalRaised
             ELSE evaluate_MUL_from(
                      term, arg.arrays, k + 1,
                      TensorProduct(out_expression, arg.val),
                      IF arg.none THEN tensorprod_indices
                      ELSE tensorprod_indices \o arg.ind)

evaluate_MUL_expression(term, arrays) ==
    evaluate_MUL_from(term, arrays, 1, Scalar(PConst(1)), <<>>)

\* a bug that squares without contracting
evaluate_Pow_expression_NoContraction(term, arrays) ==
    LET base == term.args[1]
        e == term.args[2]
        ev == evaluate_Indexed_expression(base, arrays)
    IN  IF AtomsIndexed(e) # {} THEN EvalRaised
        ELSE IF ev.err THEN EvalRaised
        ELSE IF ~ev.none
        THEN (IF e = Integer(2)
              THEN Evaluated(ArraySquare(ev.val), IndexList(<<>>),
                             ev.arrays, <<>>)
              ELSE EvalRaised)
        ELSE Evaluated(Scalar(ScalarPow(ev.val.data[<<>>], e.val)), None,
                       ev.arrays, <<>>)

\* evaluate_Pow_expression
evaluate_Pow_expression(term, arrays) ==
    LET base == term.args[1]
        e == term.args[2]
        ev == evaluate_Indexed_expression(base, arrays)
    IN  IF AtomsIndexed(e) # {} THEN EvalRaised
        ELSE IF ev.err THEN EvalRaised
        ELSE IF ~ev.none
        THEN (IF e = Integer(2)
              THEN LET out == apply_contraction_indexed(
                                  <<>>, ev.ind, ArraySquare(ev.val))
                   IN  IF out.err THEN EvalRaised
                       ELSE Evaluated(out, IndexList(<<>>), ev.arrays, <<>>)
              ELSE EvalRaised)
        ELSE Evaluated(Scalar(ScalarPow(ev.val.data[<<>>], e.val)), None,
                       ev.arrays, <<>>)

\* evaluate_Indexed_expression
evaluate_Indexed_expression(expression, arrays) ==
    IF expression.kind = "Mul"
    THEN evaluate_MUL_expression(expression, arrays)
    ELSE IF expression.kind = "Add"
    THEN evaluate_ADD_expression(expression, arrays)
    ELSE IF expression.kind = "Indexed"
    THEN LET struc == remove_repeated_index(expression.indices)
         IN  Evaluated(apply_contraction_indexed(struc, expression.indices,
                                                 arrays[expression]),
                       IndexList(struc), arrays,
                       IF struc = expression.indices THEN <<expression>>
                       ELSE <<>>)
    ELSE IF expression.kind = "EinsteinTerm"
    THEN Evaluated(arrays[expression], None, arrays, <<>>)
    ELSE IF expression.kind = "Pow"
    THEN evaluate_Pow_expression(expression, arrays)
    ELSE Evaluated(Scalar(PConst(expression.val)), None, arrays, <<>>)

\* evaluate_expression: the signature is computed first (and may raise),
\* then the expression is evaluated
evaluate_expression(expression, arrays) ==
    IF get_index_structure(expression).err THEN EvalRaised
    ELSE evaluate_Indexed_expression(expression, arrays)


(***************************************************************************)
(* EinsteinExpansion.__init__ on one equation.                             *)
(***************************************************************************)
\* a bug that lets the first coordinate vary fastest
RECURSIVE ndindex_FirstFastest(_)
ndindex_FirstFastest(shape) ==
    IF shape = <<>> THEN << <<>> >>
    ELSE LET rest == ndindex_FirstFastest(Tail(shape))
             m == Len(rest)
         IN  [n \in 1..(Head(shape) * m) |->
                <<(n - 1) % Head(shape)>> \o rest[((n - 1) \div Head(shape)) + 1]]

\* np.ndindex(*shape): the coordinate tuples, the last coordinate fastest
RECURSIVE ndindex(_)
ndindex(shape) ==
    IF shape = <<>> THEN << <<>> >>
    ELSE LET rest == ndindex(Tail(shape))
             m == Len(rest)
         IN  [n \in 1..(Head(shape) * m) |->
                <<(n - 1) \div m>> \o rest[((n - 1) % m) + 1]]

\* Eq(lhs, rhs)
Eq(lhs, rhs) == [lhs |-> lhs, rhs |-> rhs]

\* a bug that tests for MatrixBase alone, which no N-dim array is
IsArray_MatrixOnly(evaluated) == FALSE

\* isinstance(evaluated_lhs, array_types)
IsArray(evaluated) == evaluated.arr

\* evaluated_rhs[ind]: an array is subscripted by as many coordinates as it
\* has axes; anything else raises
Subscriptable(evaluated, ind) == evaluated.arr /\ Len(ind) = Rank(evaluated)

NoEvaluation == [err |-> FALSE, val |-> Scalar(PConst(0)),
                 none |-> TRUE, ind |-> <<>>, arrays |-> <<>>, alias |-> <<>>]

IndexNames == {"i", "j"}

Rank1Leaves == {Indexed(b, <<x>>) : b \in {"u", "v"}, x \in IndexNames}

Rank2Leaves ==
    {Indexed(b, <<x, y>>) : b \in {"tau", "KD"}, x \in IndexNames, y \in IndexNames}

ScalarLeaves == {EinsteinTerm("a"), Integer(2)}

LeafExprs == Rank1Leaves \cup Rank2Leaves \cup ScalarLeaves

Products ==
    {Mul(<<x, y>>) : x \in LeafExprs, y \in Rank1Leaves \cup ScalarLeaves}
    \cup {Mul(<<Indexed("tau", <<"i", "j">>), Indexed("tau", <<x, y>>)>>) :
            x \in IndexNames, y \in IndexNames}
    \cup {Mul(<<Indexed("u", <<x>>), Indexed("v", <<y>>), Indexed("w", <<z>>)>>) :
            x \in IndexNames, y \in IndexNames, z \in IndexNames}

LhsExprs ==
    LeafExprs
    \cup {Mul(<<Indexed("u", <<"i">>), Indexed("v", <<y>>)>>) : y \in IndexNames}

RhsExprs == LeafExprs \cup Products

ExIdle ==
    /\ ex_pc = "idle"
    /\ ex_ndim = 0
    /\ ex_lhs = Integer(0)
    /\ ex_rhs = Integer(0)
    /\ ex_strict = FALSE
    /\ ex_arrays = <<>>
    /\ ex_eval_lhs = NoEvaluation
    /\ ex_eval_rhs = NoEvaluation
    /\ ex_expanded = <<>>

SdIdle ==
    /\ sd_pc = "idle"
    /\ sd_arg = <<>>
    /\ sd_ta = {}
    /\ sd_dict = <<>>
    /\ sd_order = <<>>
    /\ sd_input_order = 0
    /\ sd_key_list = <<>>
    /\ sd_iter = 0
    /\ sd_result = <<>>
    /\ sd_report = NoReport

\* no call of split_index, of set_equations or of sort_constants, and no
\* KernelCounter
BkIdle ==
    /\ sp_pc = "idle" /\ sp_arrays = <<>> /\ sp_index = <<>> /\ sp_split = <<>>
    /\ kc_pc = "idle" /\ kc_kernel_counter = 0 /\ kc_stored_counter = 0
    /\ kc_last = "" /\ kc_at_store = 0
    /\ se_pc = "idle" /\ se_input = <<>> /\ se_list = <<>> /\ se_no = 0
    /\ sc_pc = "idle" /\ sc_dict = <<>> /\ sc_known = <<>> /\ sc_unknown = <<>>

AcIdle ==
    /\ ac_pc = "idle"
    /\ ac_ndim = 0
    /\ ac_outer = <<>>
    /\ ac_tensor = <<>>
    /\ ac_array = Scalar(PConst(0))
    /\ ac_out = Scalar(PConst(0))

MtIdle ==
    /\ mt_pc = "idle"
    /\ mt_ndim = 0
    /\ mt_atoms = {}
    /\ mt_fns = {}
    /\ mt_coord = FALSE
    /\ mt_coordinates = <<>>
    /\ mt_fields = <<>>
    /\ mt_dict = {}
    /\ mt_order = <<>>
    /\ mt_to_eval = <<>>
    /\ mt_number = 0

ExInit ==
    /\ ex_pc = "atoms"
    /\ ex_ndim \in 1..MaxDim
    /\ ex_lhs \in LhsExprs
    /\ ex_rhs \in RhsExprs
    /\ ex_strict \in BOOLEAN
    /\ ex_arrays = <<>>
    /\ ex_eval_lhs = NoEvaluation
    /\ ex_eval_rhs = NoEvaluation
    /\ ex_expanded = <<>>

\* LC.IndexedObj, lines 249-250
LCRaises(leaf, ndim) ==
    leaf.base = "LC" /\ (Len(leaf.indices) # 3 \/ ndim # 3)

\* lines 376-404: the arrays of the Einstein terms, of the deltas and of
\* the Levi-Civita symbols
\* a bug that goes to the lhs first
Materialize_LhsNext ==
    /\ ex_pc = "atoms"
    /\ ex_arrays' = [leaf \in Leaves(ex_lhs) \cup Leaves(ex_rhs)
                       |-> ndimarray(leaf, ex_ndim)]
    /\ ex_pc' = "lhs"
    /\ UNCHANGED <<ex_ndim, ex_lhs, ex_rhs, ex_strict, ex_eval_lhs,
                   ex_eval_rhs, ex_expanded>>
    /\ UNCHANGED <<sd_vars, ac_vars, mt_vars, bk_vars>>

Materialize ==
    /\ ex_pc = "atoms"
    /\ LET leaves == Leaves(ex_lhs) \cup Leaves(ex_rhs)
       IN  IF \E leaf \in leaves : LCRaises(leaf, ex_ndim)
           THEN ex_pc' = "raised" /\ UNCHANGED ex_arrays
           ELSE /\ ex_arrays' = [leaf \in leaves |-> ndimarray(leaf, ex_ndim)]
                /\ ex_pc' = "rhs"
    /\ UNCHANGED <<ex_ndim, ex_lhs, ex_rhs, ex_strict, ex_eval_lhs,
                   ex_eval_rhs, ex_expanded>>
    /\ UNCHANGED <<sd_vars, ac_vars, mt_vars, bk_vars>>

\* line 424
EvaluateRhs ==
    /\ ex_pc = "rhs"
    /\ LET r == evaluate_expression(ex_rhs, ex_arrays)
       IN  IF r.err
           THEN ex_pc' = "raised" /\ UNCHANGED <<ex_eval_rhs, ex_arrays>>
           ELSE ex_pc' = "lhs" /\ ex_eval_rhs' = r /\ ex_arrays' = r.arrays
    /\ UNCHANGED <<ex_ndim, ex_lhs, ex_rhs, ex_strict,
                   ex_eval_lhs, ex_expanded>>
    /\ UNCHANGED <<sd_vars, ac_vars, mt_vars, bk_vars>>

\* line 425
EvaluateLhs ==
    /\ ex_pc = "lhs"
    /\ LET r == evaluate_expression(ex_lhs, ex_arrays)
       IN  IF r.err
           THEN ex_pc' = "raised" /\ UNCHANGED <<ex_eval_lhs, ex_arrays>>
           ELSE ex_pc' = "emit" /\ ex_eval_lhs' = r /\ ex_arrays' = r.arrays
    /\ UNCHANGED <<ex_ndim, ex_lhs, ex_rhs, ex_strict,
                   ex_eval_rhs, ex_expanded>>
    /\ UNCHANGED <<sd_vars, ac_vars, mt_vars, bk_vars>>

\* lines 427-429: the lhs is an array, one equation per coordinate tuple;
\* the first evaluated_rhs[ind] that cannot be taken raises
EmitArray ==
    /\ ex_pc = "emit"
    /\ IsArray(ex_eval_lhs.val)
    /\ LET lhs == ex_eval_lhs.val
           rhs == ex_eval_rhs.val
           inds == ndindex(lhs.shape)
       IN  IF Subscriptable(rhs, inds[1])
           THEN /\ ex_expanded' =
                     [n \in 1..Len(inds) |->
                        Eq(Scalar(lhs.data[inds[n]]), Scalar(rhs.data[inds[n]]))]
                /\ ex_pc' = "done"
           ELSE /\ ex_pc' = "raised"
                /\ UNCHANGED ex_expanded
    /\ UNCHANGED <<ex_ndim, ex_lhs, ex_rhs, ex_strict, ex_arrays,
                   ex_eval_lhs, ex_eval_rhs>>
    /\ UNCHANGED <<sd_vars, ac_vars, mt_vars, bk_vars>>

\* lines 430-431: the lhs is no array, Eq(evaluated_lhs, evaluated_rhs)
\* whatever the rhs is; Eq of a scalar and an array is left to the library
EmitScalar ==
    /\ ex_pc = "emit"
    /\ ~IsArray(ex_eval_lhs.val)
    /\ IF IsArray(ex_eval_rhs.val) /\ ex_strict
       THEN /\ ex_pc' = "raised"
            /\ UNCHANGED ex_expanded
       ELSE /\ ex_expanded' = <<Eq(ex_eval_lhs.val, ex_eval_rhs.val)>>
            /\ ex_pc' = "done"
    /\ UNCHANGED <<ex_ndim, ex_lhs, ex_rhs, ex_strict, ex_arrays,
                   ex_eval_lhs, ex_eval_rhs>>
    /\ UNCHANGED <<sd_vars, ac_vars, mt_vars, bk_vars>>

ExNext == Materialize \/ EvaluateRhs \/ EvaluateLhs \/ EmitArray \/ EmitScalar

Next == SdNext

Init == SdInit /\ ExIdle /\ AcIdle /\ MtIdle /\ BkIdle

Spec == Init /\ [][Next]_vars

ExpInit == ExInit /\ SdIdle /\ AcIdle /\ MtIdle /\ BkIdle

ExpSpec == ExpInit /\ [][ExNext]_vars

(***************************************************************************)
(* Equations whose rhs is a sum, a power or a Levi-Civita symbol.          *)
(***************************************************************************)
u_i == Indexed("u", <<"i">>)

v_i == Indexed("v", <<"i">>)

v_j == Indexed("v", <<"j">>)

tau_i_j == Indexed("tau", <<"i", "j">>)

tau_j_i == Indexed("tau", <<"j", "i">>)

tau_i_i == Indexed("tau", <<"i", "i">>)

KD_i_j == Indexed("KD", <<"i", "j">>)

T_i_j_k == Indexed("T", <<"i", "j", "k">>)

T_k_j_i == Indexed("T", <<"k", "j", "i">>)

T_j_k_i == Indexed("T", <<"j", "k", "i">>)

LC_i_j_k == Indexed("LC", <<"i", "j", "k">>)

Addends ==
    {u_i, v_i, v_j, tau_i_j, tau_j_i, tau_i_i, KD_i_j, T_i_j_k, T_k_j_i,
     T_j_k_i, EinsteinTerm("a"), Integer(2),
     Mul(<<u_i, v_i>>), Mul(<<u_i, v_j>>), Mul(<<v_j, u_i>>),
     Pow(u_i, Integer(2))}

Sums ==
    {Add(<<x, y>>) : x \in Addends, y \in Addends}
    \cup {Add(<<tau_i_j, x, y>>) : x \in {tau_i_j, tau_j_i, KD_i_j},
                                    y \in {tau_i_j, tau_j_i, KD_i_j}}

PowBases ==
    {u_i, tau_i_j, tau_i_i, T_i_j_k, EinsteinTerm("a"), Integer(3),
     Mul(<<u_i, v_i>>), Mul(<<u_i, v_j>>),
     Add(<<u_i, v_i>>), Add(<<u_i, v_j>>), Add(<<tau_i_j, tau_j_i>>),
     Add(<<EinsteinTerm("a"), Integer(2)>>),
     Pow(u_i, Integer(2)),
     Add(<<Pow(u_i, Integer(2)), Pow(v_j, Integer(2))>>)}

Exponents ==
    {Integer(2), Integer(3), u_i, Mul(<<Integer(2), v_j>>)}

Powers == {Pow(b, e) : b \in PowBases, e \in Exponents}

TermLhs == {EinsteinTerm("a"), u_i, tau_i_j, T_i_j_k}

TermRhs ==
    Sums \cup Powers
    \cup {LC_i_j_k, Mul(<<LC_i_j_k, v_j>>),
          Mul(<<Add(<<tau_i_j, tau_j_i>>), tau_i_j>>),
          Mul(<<Integer(2), Pow(u_i, Integer(2))>>)}

TermExInit ==
    /\ ex_pc = "atoms"
    /\ ex_ndim \in 1..MaxDim
    /\ ex_lhs \in TermLhs
    /\ ex_rhs \in TermRhs
    /\ ex_strict \in BOOLEAN
    /\ ex_arrays = <<>>
    /\ ex_eval_lhs = NoEvaluation
    /\ ex_eval_rhs = NoEvaluation
    /\ ex_expanded = <<>>

TermInit == TermExInit /\ SdIdle /\ AcIdle /\ MtIdle /\ BkIdle

TermSpec == TermInit /\ [][ExNext]_vars

(***************************************************************************)
(* One call of apply_contraction_indexed.                                  *)
(***************************************************************************)
MaxRank == 4

ContractionIndexNames == {"i", "j", "k"}

\* the index lists of the arrays that are contracted
TensorIndexLists ==
    UNION {[1..n -> ContractionIndexNames] : n \in 0..MaxRank}

\* an array of symbols, one for every coordinate tuple
SymbolArray(name, rank, ndim) ==
    LET shape == [p \in 1..rank |-> ndim]
    IN  [err |-> FALSE, arr |-> rank > 0, shape |-> shape,
         data |-> [t \in TupleSet(shape) |-> PAtom(Atom(name, t))]]

\* the callers pass the indices that occur once (evaluate_MUL_expression,
\* evaluate_Indexed_expression, Der.IndexedObj) or no index at all
\* (evaluate_Pow_expression)
AcInit ==
    /\ ac_pc = "call"
    /\ ac_ndim \in 1..MaxDim
    /\ ac_tensor \in TensorIndexLists
    /\ ac_outer \in {remove_repeated_index(ac_tensor), <<>>}
    /\ ac_array = SymbolArray("A", Len(ac_tensor), ac_ndim)
    /\ ac_out = Scalar(PConst(0))

\* apply_contraction_indexed, lines 620-628
Contract ==
    /\ ac_pc = "call"
    /\ ac_out' = apply_contraction_indexed(ac_outer, ac_tensor, ac_array)
    /\ ac_pc' = "return"
    /\ UNCHANGED <<ac_ndim, ac_outer, ac_tensor, ac_array>>
    /\ UNCHANGED <<sd_vars, ex_vars, mt_vars, bk_vars>>

AcNext == Contract

ConInit == AcInit /\ SdIdle /\ ExIdle /\ MtIdle /\ BkIdle

ConSpec == ConInit /\ [][AcNext]_vars

(***************************************************************************)
(* Lines 356-421 of EinsteinExpansion.__init__: the implicit arguments,    *)
(* the arrays of the Einstein terms, and the entries of the Function       *)
(* nodes.  An Einstein term is its name split at the underscores; a        *)
(* Function node is its class, a tag that tells nodes of one class apart,  *)
(* and `sub`, the outermost Function nodes inside its first argument       *)
(* (those that evaluate_expression looks up in indexed_dict).              *)
(***************************************************************************)
Term(base, indices) == [base |-> base, indices |-> indices]

\* Equation.__init__, lines 463-470, with the coordinate symbol x and the
\* constants ["Re"]
is_coordinate(term) == term.base # "Re" /\ term.base \in {"x", "t"}

is_constant(term) == term.base = "Re" \/ is_coordinate(term)

Fn(func, tag, sub) == [func |-> func, tag |-> tag, sub |-> sub]

\* fn.args[0].atoms(Function) is not empty
Nested(fn) == fn.sub # {}

\* expression.atoms(Function): the nodes and every node inside them
RECURSIVE AtomsFunction(_)
AtomsFunction(fns) ==
    IF fns = {} THEN {}
    ELSE fns \cup AtomsFunction(UNION {fn.sub : fn \in fns})

\* the Function nodes an equation is built from: KD(_i, _j), LC(_i, _j, _k),
\* Der(u_i, x_j), Conservative(rho, x_j), Der(Der(u_i, x_j), x_j) and one
\* level more and one more, Der(KD(_i, _j)*u_j, x_i), and
\* Conservative(Der(u_i, x_j)*Conservative(rho, x_j), x_i)
TopNodes ==
    LET KDNode == Fn("KD", 0, {})
        LCNode == Fn("LC", 0, {})
        Der1 == Fn("Der", 1, {})
        Conservative1 == Fn("Conservative", 1, {})
        Der2 == Fn("Der", 2, {Der1})
        Der3 == Fn("Der", 3, {Der2})
        Der4 == Fn("Der", 4, {Der3})
        DerOfDelta == Fn("Der", 5, {KDNode})
        ConservativeOfTwo == Fn("Conservative", 6, {Der1, Conservative1})
    IN  {KDNode, LCNode, Der1, Conservative1, Der2, Der3, Der4, DerOfDelta,
         ConservativeOfTwo}

\* expression.atoms(Function) of an equation with at most two of them
FunctionSets ==
    {AtomsFunction(tops) : tops \in {S \in SUBSET TopNodes : Cardinality(S) <= 2}}

\* expression.atoms(EinsteinTerm): the coordinate terms (none, x_j, x_i and
\* x_j, only t, x_j and t) with or without the terms u_i, rho, Re and _i
TermSets ==
    LET FieldTerms ==
            {Term("u", <<"i">>), Term("rho", <<>>), Term("Re", <<>>),
             Term("", <<"i">>)}
        CoordinateTerms ==
            {{}, {Term("x", <<"j">>)}, {Term("x", <<"i">>), Term("x", <<"j">>)},
             {Term("t", <<>>)}, {Term("x", <<"j">>), Term("t", <<>>)}}
    IN  {c \cup f : c \in CoordinateTerms, f \in {{}, FieldTerms}}

MtInit ==
    /\ mt_pc = "coordinates"
    /\ mt_ndim \in 1..MaxDim
    /\ mt_atoms \in TermSets
    /\ mt_fns \in FunctionSets
    /\ mt_coord = FALSE
    /\ mt_coordinates = <<>>
    /\ mt_fields = <<>>
    /\ mt_dict = {}
    /\ mt_order = <<>>
    /\ mt_to_eval = <<>>
    /\ mt_number = 0

\* flatten(arra.tolist()) of a coordinate term with one index: x0, x1, ...
ExpandedCoordinate(term, ndim) == [p \in 1..ndim |-> Atom(term.base, <<p - 1>>)]

\* [EinsteinTerm('x%d' % dim) for dim in range(self.ndim)]
DefaultCoordinates(ndim) == [p \in 1..ndim |-> Atom("x", <<p - 1>>)]

\* lines 356-371; `coordinates` is assigned only in the pass of a
\* coordinate term that has indices, and line 369 reads it
Coordinates ==
    /\ mt_pc = "coordinates"
    /\ LET coord == \E atom \in mt_atoms : is_coordinate(atom)
           indexed == {atom \in mt_atoms :
                         is_coordinate(atom) /\ atom.indices # <<>>}
       IN  /\ mt_coord' = coord
           /\ IF ~coord
              THEN /\ mt_coordinates'
                        = DefaultCoordinates(mt_ndim) \o <<Atom("t", <<>>)>>
                   /\ mt_pc' = "terms"
              ELSE IF indexed = {}
              THEN /\ mt_pc' = "UnboundLocalError"
                   /\ UNCHANGED mt_coordinates
              ELSE /\ \E atom \in indexed :
                        mt_coordinates'
                          = ExpandedCoordinate(atom, mt_ndim)
                            \o <<Atom("t", <<>>)>>
                   /\ mt_pc' = "terms"
    /\ UNCHANGED <<mt_ndim, mt_atoms, mt_fns, mt_fields, mt_dict, mt_order,
                   mt_to_eval, mt_number>>
    /\ UNCHANGED <<sd_vars, ex_vars, ac_vars, bk_vars>>

\* lines 376-392: a term that is not constant and has a base name becomes
\* a function (an array of functions) of the coordinates
Terms ==
    /\ mt_pc = "terms"
    /\ mt_fields' =
         [atom \in {a \in mt_atoms :
                      ~is_constant(a) /\ (a.indices = <<>> \/ a.base # "")}
            |-> mt_coordinates]
    /\ mt_pc' = "KD"
    /\ UNCHANGED <<mt_ndim, mt_atoms, mt_fns, mt_coord, mt_coordinates,
                   mt_dict, mt_order, mt_to_eval, mt_number>>
    /\ UNCHANGED <<sd_vars, ex_vars, ac_vars, bk_vars>>

\* the orders in which a loop can meet the elements of a set
Orderings(S) ==
    {s \in [1..Cardinality(S) -> S] :
        \A a \in DOMAIN s, b \in DOMAIN s : a # b => s[a] # s[b]}

\* lines 395-398: the Kronecker deltas
Deltas ==
    /\ mt_pc = "KD"
    /\ \E kds \in Orderings({fn \in mt_fns : fn.func = "KD" /\ fn \notin mt_dict}) :
         /\ mt_dict' = mt_dict \cup Range(kds)
         /\ mt_order' = mt_order \o kds
    /\ mt_pc' = "LC"
    /\ UNCHANGED <<mt_ndim, mt_atoms, mt_fns, mt_coord, mt_coordinates,
                   mt_fields, mt_to_eval, mt_number>>
    /\ UNCHANGED <<sd_vars, ex_vars, ac_vars, bk_vars>>

\* lines 401-404: the Levi-Civita symbols; LC.IndexedObj raises unless
\* ndim = 3
LeviCivitas ==
    /\ mt_pc = "LC"
    /\ \E lcs \in Orderings({fn \in mt_fns : fn.func = "LC" /\ fn \notin mt_dict}) :
         IF lcs # <<>> /\ mt_ndim # 3
         THEN /\ mt_pc' = "ValueError"
              /\ UNCHANGED <<mt_dict, mt_order>>
         ELSE /\ mt_dict' = mt_dict \cup Range(lcs)
              /\ mt_order' = mt_order \o lcs
              /\ mt_pc' = "Function"
    /\ UNCHANGED <<mt_ndim, mt_atoms, mt_fns, mt_coord, mt_coordinates,
                   mt_fields, mt_to_eval, mt_number>>
    /\ UNCHANGED <<sd_vars, ex_vars, ac_vars, bk_vars>>

\* lines 407-415: one pass over expression.atoms(Function), in the order
\* the set gives; a function without a Function in its first argument gets
\* its entry now, the others are appended to to_eval
Functions ==
    /\ mt_pc = "Function"
    /\ \E plain \in Orderings({fn \in mt_fns : ~Nested(fn) /\ fn \notin mt_dict}),
          nested \in Orderings({fn \in mt_fns : Nested(fn)}) :
         /\ mt_dict' = mt_dict \cup Range(plain)
         /\ mt_order' = mt_order \o plain
         /\ mt_number' = mt_number + Len(plain)
         /\ mt_to_eval' = nested
    /\ mt_pc' = "to_eval"
    /\ UNCHANGED <<mt_ndim, mt_atoms, mt_fns, mt_coord, mt_coordinates,
                   mt_fields>>
    /\ UNCHANGED <<sd_vars, ex_vars, ac_vars, bk_vars>>

\* Der.IndexedObj, line 56: evaluate_expression (line 653) reads
\* indexed_dict[Et] for every outermost Function of the first argument
MissingEntries(ev, dict) == ev.sub \ dict

\* lines 418-421: the next function of to_eval
NestedFunction ==
    /\ mt_pc = "to_eval"
    /\ mt_to_eval # <<>>
    /\ LET ev == Head(mt_to_eval)
       IN  IF MissingEntries(ev, mt_dict) # {}
           THEN /\ mt_pc' = "KeyError"
                /\ mt_number' = mt_number + 1
                /\ UNCHANGED <<mt_dict, mt_order, mt_to_eval>>
           ELSE /\ mt_dict' = mt_dict \cup {ev}
                /\ mt_order' = Append(mt_order, ev)
                /\ mt_number' = mt_number + 1
                /\ mt_to_eval' = Tail(mt_to_eval)
                /\ UNCHANGED mt_pc
    /\ UNCHANGED <<mt_ndim, mt_atoms, mt_fns, mt_coord, mt_coordinates,
                   mt_fields>>
    /\ UNCHANGED <<sd_vars, ex_vars, ac_vars, bk_vars>>

\* line 423: every function of to_eval has its entry
Materialized_All ==
    /\ mt_pc = "to_eval"
    /\ mt_to_eval = <<>>
    /\ mt_pc' = "evaluate"
    /\ UNCHANGED <<mt_ndim, mt_atoms, mt_fns, mt_coord, mt_coordinates,
                   mt_fields, mt_dict, mt_order, mt_to_eval, mt_number>>
    /\ UNCHANGED <<sd_vars, ex_vars, ac_vars, bk_vars>>

MtNext ==
    \/ Coordinates
    \/ Terms
    \/ Deltas
    \/ LeviCivitas
    \/ Functions
    \/ NestedFunction
    \/ Materialized_All

MatInit == MtInit /\ SdIdle /\ ExIdle /\ AcIdle /\ BkIdle

MatSpec == MatInit /\ [][MtNext]_vars

(***************************************************************************)
(* Der.split_index and Conservative.split_index (the same statements): a   *)
(* call with the list `functions` of Der.IndexedObj, the target first,     *)
(* then the directions, and one coordinate tuple of the shape.             *)
(***************************************************************************)
\* len(arr.indices) of the members of the list that take a slice
IndexCount(arrays) ==
    [k \in 1..Len(arrays) |->
        IF arrays[k].kind = "Indexed" THEN Len(arrays[k].indices) ELSE 0]

RECURSIVE IndexTotal(_)
IndexTotal(counts) ==
    IF counts = <<>> THEN 0 ELSE Head(counts) + IndexTotal(Tail(counts))

\* tuple(index[count:count+nind]); a slice ends where the tuple ends
Slice(index, count, nind) ==
    SubSeq(index, count + 1,
           IF count + nind < Len(index) THEN count + nind ELSE Len(index))

\* the loop of lines 117-122 from the k-th member on
RECURSIVE split_index_from(_, _, _, _, _)
split_index_from(index, arrays, k, count, split) ==
    IF k > Len(arrays) THEN split
    ELSE LET arr == arrays[k]
             nind == Len(arr.indices)
         IN  IF arr.kind = "Indexed" /\ nind > 0
             THEN split_index_from(
                      index, arrays, k + 1, count + nind,
                      [x \in DOMAIN split \cup {arr} |->
                          IF x = arr THEN Slice(index, count, nind)
                          ELSE split[x]])
             ELSE split_index_from(index, arrays, k + 1, count, split)

\* split_index(self, index, arrays)
split_index(index, arrays) == split_index_from(index, arrays, 1, 0, <<>>)

\* the target u (no index), u_i or tau_i_j, then one or two directions
\* among x_i, x_j and t, and a coordinate tuple of the shape
SplitInit ==
    /\ sp_pc = "call"
    /\ \E target \in {EinsteinTerm("u"), Indexed("u", <<"i">>),
                      Indexed("tau", <<"i", "j">>)},
          n \in 1..2 :
         \E directions \in [1..n -> {Indexed("x", <<"i">>),
                                     Indexed("x", <<"j">>),
                                     EinsteinTerm("t")}] :
            sp_arrays = <<target>> \o directions
    /\ sp_index \in TupleSet([p \in 1..IndexTotal(IndexCount(sp_arrays))
                                |-> MaxDim])
    /\ sp_split = <<>>
    /\ kc_pc = "idle" /\ kc_kernel_counter = 0 /\ kc_stored_counter = 0
    /\ kc_last = "" /\ kc_at_store = 0
    /\ se_pc = "idle" /\ se_input = <<>> /\ se_list = <<>> /\ se_no = 0
    /\ sc_pc = "idle" /\ sc_dict = <<>> /\ sc_known = <<>> /\ sc_unknown = <<>>
    /\ SdIdle /\ ExIdle /\ AcIdle /\ MtIdle

\* lines 114-123
SplitIndex ==
    /\ sp_pc = "call"
    /\ sp_split' = split_index(sp_index, sp_arrays)
    /\ sp_pc' = "done"
    /\ UNCHANGED <<sp_arrays, sp_index>>
    /\ UNCHANGED <<kc_pc, kc_kernel_counter, kc_stored_counter, kc_last,
                   kc_at_store, se_pc, se_input, se_list, se_no,
                   sc_pc, sc_dict, sc_known, sc_unknown>>
    /\ UNCHANGED <<sd_vars, ex_vars, ac_vars, mt_vars>>

SplitSpec == SplitInit /\ [][SplitIndex]_vars

(***************************************************************************)
(* sort_constants of block.py.  A constant is its name (a number, 0 is a   *)
(* name that is in no dictionary), is_input, and `requires`, the names in  *)
(* value.atoms(ConstantObject).                                            *)
(***************************************************************************)
\* the for loop of lines 366-373 from the k-th member of the list it
\* iterates.  The loop keeps iterating the list object it started with
\* when unknown_constants is rebound.  `[x for x in unknown_constants if
\* not const]` tests const, not x: a constant is an object without a truth
\* value of its own, hence true, and the comprehension is the empty list.
RECURSIVE ForConstants(_, _, _, _, _)
ForConstants(iterated, k, set_of_known, known_constants, unknown_constants) ==
    IF k > Len(iterated)
    THEN [known |-> known_constants, unknown |-> unknown_constants]
    ELSE LET const == iterated[k]
         IN  IF const.requires \subseteq set_of_known
             THEN ForConstants(iterated, k + 1, set_of_known,
                               Append(known_constants, const),
                               SelectSeq(unknown_constants, LAMBDA x : FALSE))
             ELSE ForConstants(iterated, k + 1, set_of_known,
                               known_constants, unknown_constants)

\* MaxConst constants; each is an input or not and requires at most one
\* name, possibly its own or the absent name 0
ConstInit ==
    /\ sc_pc = "call"
    /\ \E is_input \in [1..MaxConst -> BOOLEAN],
          requires \in [1..MaxConst -> {{}} \cup {{n} : n \in 0..MaxConst}] :
         sc_dict = [k \in 1..MaxConst |->
                      [name |-> k, is_input |-> is_input[k],
                       requires |-> requires[k]]]
    /\ sc_known = <<>>
    /\ sc_unknown = <<>>
    /\ sp_pc = "idle" /\ sp_arrays = <<>> /\ sp_index = <<>> /\ sp_split = <<>>
    /\ kc_pc = "idle" /\ kc_kernel_counter = 0 /\ kc_stored_counter = 0
    /\ kc_last = "" /\ kc_at_store = 0
    /\ se_pc = "idle" /\ se_input = <<>> /\ se_list = <<>> /\ se_no = 0
    /\ SdIdle /\ ExIdle /\ AcIdle /\ MtIdle

\* lines 357-363: the inputs are known, the others unknown
SortConstantsBegin ==
    /\ sc_pc = "call"
    /\ sc_known' = SelectSeq(sc_dict, LAMBDA const : const.is_input)
    /\ sc_unknown' = SelectSeq(sc_dict, LAMBDA const : ~const.is_input)
    /\ sc_pc' = "while"
    /\ UNCHANGED sc_dict
    /\ UNCHANGED <<sp_pc, sp_arrays, sp_index, sp_split, kc_pc,
                   kc_kernel_counter, kc_stored_counter, kc_last, kc_at_store,
                   se_pc, se_input, se_list, se_no>>
    /\ UNCHANGED <<sd_vars, ex_vars, ac_vars, mt_vars>>

\* lines 364-373: one pass through the body of the while loop
SortConstantsPass ==
    /\ sc_pc = "while"
    /\ Len(sc_unknown) # 0
    /\ LET set_of_known == {const.name : const \in Range(sc_known)}
           pass == ForConstants(sc_unknown, 1, set_of_known, sc_known,
                                sc_unknown)
       IN  /\ sc_known' = pass.known
           /\ sc_unknown' = pass.unknown
    /\ UNCHANGED <<sc_pc, sc_dict>>
    /\ UNCHANGED <<sp_pc, sp_arrays, sp_index, sp_split, kc_pc,
                   kc_kernel_counter, kc_stored_counter, kc_last, kc_at_store,
                   se_pc, se_input, se_list, se_no>>
    /\ UNCHANGED <<sd_vars, ex_vars, ac_vars, mt_vars>>

\* line 374: return known_constants
SortConstantsReturn ==
    /\ sc_pc = "while"
    /\ Len(sc_unknown) = 0
    /\ sc_pc' = "done"
    /\ UNCHANGED <<sc_dict, sc_known, sc_unknown>>
    /\ UNCHANGED <<sp_pc, sp_arrays, sp_index, sp_split, kc_pc,
                   kc_kernel_counter, kc_stored_counter, kc_last, kc_at_store,
                   se_pc, se_input, se_list, se_no>>
    /\ UNCHANGED <<sd_vars, ex_vars, ac_vars, mt_vars>>

\* the caller waits for the return: every step that can be taken is taken
ConstSpec ==
    /\ ConstInit
    /\ [][SortConstantsBegin \/ SortConstantsPass \/ SortConstantsReturn]_vars
    /\ WF_vars(SortConstantsBegin \/ SortConstantsPass \/ SortConstantsReturn)

(***************************************************************************)
(* SimulationBlock.set_equations and sort_equation_classes of block.py.    *)
(* An equation class is a number that tells the objects apart and `cr`,    *)
(* whether it is an instance of ConstituentRelations.                      *)
(***************************************************************************)
\* a bug that exchanges the class with the first one
MoveToFront_Exchange(list, no) ==
    [p \in 1..Len(list) |->
        IF p = 1 THEN list[no + 1]
        ELSE IF p = no + 1 THEN list[1]
        ELSE list[p]]

\* cr = list.pop(no); list.insert(0, cr)
MoveToFront(list, no) ==
    <<list[no + 1]>> \o SubSeq(list, 1, no) \o SubSeq(list, no + 2, Len(list))

\* up to MaxClasses equation classes, each a ConstituentRelations or not
ClassInit ==
    /\ se_pc = "call"
    /\ \E n \in 0..MaxClasses :
         \E cr \in [1..n -> BOOLEAN] :
            se_input = [k \in 1..n |-> [id |-> k, cr |-> cr[k]]]
    /\ se_list = <<>>
    /\ se_no = 0
    /\ sp_pc = "idle" /\ sp_arrays = <<>> /\ sp_index = <<>> /\ sp_split = <<>>
    /\ kc_pc = "idle" /\ kc_kernel_counter = 0 /\ kc_stored_counter = 0
    /\ kc_last = "" /\ kc_at_store = 0
    /\ sc_pc = "idle" /\ sc_dict = <<>> /\ sc_known = <<>> /\ sc_unknown = <<>>
    /\ SdIdle /\ ExIdle /\ AcIdle /\ MtIdle

\* lines 240-245: the list is kept (the equations of each class are
\* converted, the classes stay), then sort_equation_classes is entered
set_equations ==
    /\ se_pc = "call"
    /\ se_list' = se_input
    /\ se_no' = 0
    /\ se_pc' = IF Len(se_input) = 0 THEN "done" ELSE "for"
    /\ UNCHANGED se_input
    /\ UNCHANGED <<sp_pc, sp_arrays, sp_index, sp_split, kc_pc,
                   kc_kernel_counter, kc_stored_counter, kc_last, kc_at_store,
                   sc_pc, sc_dict, sc_known, sc_unknown>>
    /\ UNCHANGED <<sd_vars, ex_vars, ac_vars, mt_vars>>

\* lines 250-253: one pass of the for loop; the enumeration goes by
\* position over the list as it is now, and ends at its length
sort_equation_classes ==
    /\ se_pc = "for"
    /\ LET eq == se_list[se_no + 1]
       IN  se_list' = IF eq.cr THEN MoveToFront(se_list, se_no) ELSE se_list
    /\ se_no' = se_no + 1
    /\ se_pc' = IF se_no + 1 < Len(se_list) THEN "for" ELSE "done"
    /\ UNCHANGED se_input
    /\ UNCHANGED <<sp_pc, sp_arrays, sp_index, sp_split, kc_pc,
                   kc_kernel_counter, kc_stored_counter, kc_last, kc_at_store,
                   sc_pc, sc_dict, sc_known, sc_unknown>>
    /\ UNCHANGED <<sd_vars, ex_vars, ac_vars, mt_vars>>

ClassSpec == ClassInit /\ [][set_equations \/ sort_equation_classes]_vars

(***************************************************************************)
(* KernelCounter of block.py: the object after __init__, and any sequence  *)
(* of its four operations.  kc_last and kc_at_store record the history and *)
(* are read by no operation.                                               *)
(***************************************************************************)
\* __init__, lines 20-22
KernelInit ==
    /\ kc_pc = "constructed"
    /\ kc_kernel_counter = 0
    /\ kc_stored_counter = 0
    /\ kc_last = "__init__"
    /\ kc_at_store = 0
    /\ sp_pc = "idle" /\ sp_arrays = <<>> /\ sp_index = <<>> /\ sp_split = <<>>
    /\ se_pc = "idle" /\ se_input = <<>> /\ se_list = <<>> /\ se_no = 0
    /\ sc_pc = "idle" /\ sc_dict = <<>> /\ sc_known = <<>> /\ sc_unknown = <<>>
    /\ SdIdle /\ ExIdle /\ AcIdle /\ MtIdle

\* lines 25-29
reset_kernel_counter ==
    /\ kc_pc = "constructed"
    /\ kc_kernel_counter' = 0
    /\ kc_last' = "reset_kernel_counter"
    /\ UNCHANGED <<kc_pc, kc_stored_counter, kc_at_store>>
    /\ UNCHANGED <<sp_pc, sp_arrays, sp_index, sp_split, se_pc, se_input,
                   se_list, se_no, sc_pc, sc_dict, sc_known, sc_unknown>>
    /\ UNCHANGED <<sd_vars, ex_vars, ac_vars, mt_vars>>

\* lines 32-36; the model stops counting at MaxCount
increase_kernel_counter ==
    /\ kc_pc = "constructed"
    /\ kc_kernel_counter < MaxCount
    /\ kc_kernel_counter' = kc_kernel_counter + 1
    /\ kc_last' = "increase_kernel_counter"
    /\ UNCHANGED <<kc_pc, kc_stored_counter, kc_at_store>>
    /\ UNCHANGED <<sp_pc, sp_arrays, sp_index, sp_split, se_pc, se_input,
                   se_list, se_no, sc_pc, sc_dict, sc_known, sc_unknown>>
    /\ UNCHANGED <<sd_vars, ex_vars, ac_vars, mt_vars>>

\* lines 39-43
store_kernel_counter ==
    /\ kc_pc = "constructed"
    /\ kc_stored_counter' = kc_kernel_counter
    /\ kc_last' = "store_kernel_counter"
    /\ kc_at_store' = kc_kernel_counter
    /\ UNCHANGED <<kc_pc, kc_kernel_counter>>
    /\ UNCHANGED <<sp_pc, sp_arrays, sp_index, sp_split, se_pc, se_input,
                   se_list, se_no, sc_pc, sc_dict, sc_known, sc_unknown>>
    /\ UNCHANGED <<sd_vars, ex_vars, ac_vars, mt_vars>>

\* a bug that resets to zero
reset_kernel_to_stored_Zero ==
    /\ kc_pc = "constructed"
    /\ kc_kernel_counter' = 0
    /\ kc_last' = "reset_kernel_to_stored"
    /\ UNCHANGED <<kc_pc, kc_stored_counter, kc_at_store>>
    /\ UNCHANGED <<sp_pc, sp_arrays, sp_index, sp_split, se_pc, se_input,
                   se_list, se_no, sc_pc, sc_dict, sc_known, sc_unknown>>
    /\ UNCHANGED <<sd_vars, ex_vars, ac_vars, mt_vars>>

\* lines 46-50
reset_kernel_to_stored ==
    /\ kc_pc = "constructed"
    /\ kc_kernel_counter' = kc_stored_counter
    /\ kc_last' = "reset_kernel_to_stored"
    /\ UNCHANGED <<kc_pc, kc_stored_counter, kc_at_store>>
    /\ UNCHANGED <<sp_pc, sp_arrays, sp_index, sp_split, se_pc, se_input,
                   se_list, se_no, sc_pc, sc_dict, sc_known, sc_unknown>>
    /\ UNCHANGED <<sd_vars, ex_vars, ac_vars, mt_vars>>

KernelSpec ==
    KernelInit /\ [][reset_kernel_counter \/ increase_kernel_counter
                     \/ store_kernel_counter \/ reset_kernel_to_stored]_vars

(***************************************************************************)
(* The scheduler's contract, stated without the algorithm.                 *)
(***************************************************************************)
Known == Range(sd_arg) \cup sd_ta

Keys == DOMAIN sd_dict

\* the position of a name in the returned list, 0 when it is not there
PosOf(x) ==
    IF x \in Range(sd_result)
    THEN CHOOSE i \in 1..Len(sd_result) : sd_result[i] = x
    ELSE 0

\* `from` and every key whose requirements `from` holds
ResolveStep(d, from) ==
    {x : x \in from \cup {k \in DOMAIN d : d[k] \subseteq from}}

\* ResolveStep applied n times (an empty half is already the fixed point)
RECURSIVE ResolveTimes(_, _, _)
ResolveTimes(d, from, n) ==
    IF n = 0 THEN from
    ELSE IF n = 1 THEN ResolveStep(d, from)
    ELSE LET half == ResolveTimes(d, from, n \div 2)
         IN  IF half = {} THEN half
             ELSE ResolveTimes(d, half, n - (n \div 2))

\* the least set that holds `from` and every key whose requirements it
\* holds: each step that is not the last adds a key
Resolve(d, from) == ResolveTimes(d, from, Cardinality(DOMAIN d))

\* every key that is not known can be resolved from the known names
Resolvable == Keys \subseteq Resolve(sd_dict, Known)

\* no key lies on a cycle of requirements
Acyclic == Keys \subseteq Resolve(sd_dict, (UNION Range(sd_dict)) \ Keys)

\* every requirement is a known name or a key
Closed == \A k \in Keys : sd_dict[k] \subseteq Known \cup Keys

\* C1: in a returned list every quantity comes strictly after each of its
\* requirements that is in the list, and each of its requirements is known
\* or comes earlier in the list.
C1_RequirementsFirst ==
    sd_pc = "done" =>
        \A i \in 1..Len(sd_result) :
            \A req \in sd_dict[sd_result[i]] :
                /\ PosOf(req) < i
                /\ req \in Known \/ PosOf(req) >= 1

C1_Witness ==
    /\ sd_pc = "done"
    /\ \E i \in 1..Len(sd_result) :
         \E req \in sd_dict[sd_result[i]] :
            /\ req \in Range(sd_result)
            /\ sd_dict[req] \cap Range(sd_result) # {}

\* C2: a returned list holds no known name: none of the `order` argument
\* and no base of a time-advance array, also when the name is a key.
C2_KnownNeverEmitted ==
    sd_pc = "done" => Range(sd_result) \cap Known = {}

C2_Witness ==
    /\ sd_pc = "done"
    /\ sd_ta \cap Keys # {}
    /\ Range(sd_arg) \cap Keys # {}
    /\ sd_result # <<>>

\* C3: a returned list has no duplicates and holds exactly the keys that
\* are not known.
C3_ExactlyOnce ==
    sd_pc = "done" =>
        /\ \A i, j \in 1..Len(sd_result) :
             sd_result[i] = sd_result[j] => i = j
        /\ Range(sd_result) = Keys \ Known

C3_Witness ==
    /\ sd_pc = "done"
    /\ Len(sd_result) >= 2
    /\ Len(sd_arg) > Cardinality(Range(sd_arg))
    /\ Keys \cap Known # {}

\* C4: for an acyclic dictionary in which every requirement is known or a
\* key, whatever the length of its longest chain, the call does not fail.
C4_AcyclicNeverFails ==
    sd_pc = "raise" => ~(Acyclic /\ Closed)

\* C5 as written: a dictionary with a cycle, or with a requirement that is
\* neither known nor a key, makes the call fail and never return.
C5_CyclicNeverReturns ==
    sd_pc = "done" => Acyclic /\ Closed

\* C5, amended: when the quantities that are not known cannot all be
\* resolved (a cycle among them, or one of them needs a name that is neither
\* known nor a key), the call makes at most RoundCap + 1 rounds, never
\* returns, never stops with quantities left, and at round RoundCap + 1 it
\* fails.
C5_UnresolvableFails ==
    /\ sd_iter <= RoundCap + 1
    /\ sd_iter = RoundCap + 1 => sd_pc = "raise"
    /\ sd_pc = "done" => Resolvable
    /\ sd_pc = "while" /\ sd_key_list = <<>> => Resolvable

C5_Witness ==
    /\ sd_pc = "raise"
    /\ sd_iter = RoundCap + 1
    /\ ~Resolvable
    /\ Len(sd_order) > sd_input_order


\* the names appended to `order` by the step
Appended == SubSeq(sd_order', Len(sd_order) + 1, Len(sd_order'))

\* C18: the batch that a round appends to the order is exactly the set of
\* the quantities not yet ordered whose requirements are all among the known
\* names and the quantities ordered before the round; a quantity that
\* requires a quantity of the batch is not in the batch.
C18_BatchOfRound ==
    [][sd_pc = "while" /\ sd_key_list # <<>> =>
          /\ SubSeq(sd_order', 1, Len(sd_order)) = sd_order
          /\ Range(Appended)
               = {k \in Keys \ Range(sd_order) :
                    sd_dict[k] \subseteq Range(sd_order)}
          /\ Cardinality(Range(Appended)) = Len(Appended)
          /\ \A k \in Range(Appended) : sd_dict[k] \cap Range(Appended) = {}
      ]_vars

\* a round has passed and a quantity whose last requirement that round
\* appended is still waiting
C18_Witness ==
    /\ sd_pc = "while"
    /\ sd_iter = 1
    /\ \E k \in Range(sd_key_list) :
         /\ sd_dict[k] \subseteq Range(sd_order)
         /\ sd_dict[k] \cap Range(Returned(sd_order, sd_input_order)) # {}



\* the requirements of a key that are neither known nor ordered
Unmet(key) == sd_dict[key] \ Range(sd_order)

\* C21: when the call fails with quantities left unresolved at the round
\* cap, the failure reports, for every stuck quantity, its unmet
\* requirements, not only those of one stuck quantity.
C21_ReportsEveryStuck ==
    sd_pc = "raise" /\ sd_key_list # <<>> =>
        \A key \in Range(sd_key_list) :
            Unmet(key) \subseteq
                (sd_report.requires \ sd_report.flagged) \cup sd_report.message

\* C22 as stated: a round that appends no quantity is the last round.
C22_StopsAtNoProgress ==
    [][SortRound /\ sd_order' = sd_order => sd_pc' # "while"]_vars

\* C22, amended: the rounds end only when no key is left or when the round
\* count exceeds the cap.  A round that appends nothing leaves key_list as
\* it was, so every later round appends nothing either, and the rounds go
\* on until round RoundCap + 1 fails.
C22_RoundsUntilCap ==
    [][SortRound =>
        /\ (sd_pc' = "raise") = (sd_iter' > RoundCap)
        /\ sd_pc' \in {"raise", "while"}
        /\ sd_order' = sd_order =>
             /\ sd_key_list' = sd_key_list
             /\ Batch(sd_dict, sd_key_list', sd_order') = <<>>]_vars

\* rounds after a round without progress, and the failure at the cap
C22_Witness ==
    /\ sd_pc = "raise"
    /\ sd_iter = RoundCap + 1
    /\ DOMAIN sd_dict = 1..MaxKey
    /\ sd_key_list # <<>>
    /\ Len(sd_order) > sd_input_order

(***************************************************************************)
(* The expansion's contract.                                               *)
(***************************************************************************)
RECURSIVE Power(_, _)
Power(n, k) == IF k = 0 THEN 1 ELSE n * Power(n, k - 1)

\* the free indices of a side: its index signature, None counting as empty
Signature(e) == get_index_structure(e).ind

SameFreeIndices == Range(Signature(ex_lhs)) = Range(Signature(ex_rhs))

\* the indices of the factors of a product, as written, left to right
RECURSIVE FactorIndices(_)
FactorIndices(args) ==
    IF args = <<>> THEN <<>>
    ELSE Head(args).indices \o FactorIndices(Tail(args))

Written(e) == FactorIndices(e.args)

TimesWritten(e, x) == Occurrences(Written(e), x)

\* a product in which some index is written three times or more
HasTripleIndex(e) ==
    /\ e.kind = "Mul"
    /\ \E x \in IndexNames : TimesWritten(e, x) >= 3

RhsEvaluated == ex_pc \in {"lhs", "emit", "done"}

\* C6: an expansion of an equation whose sides have the same free indices
\* yields ndim^k scalar equations, k the number of free indices (one
\* equation when both sides are scalar), and it does not fail unless a
\* product writes an index three times.
C6_EquationCount ==
    SameFreeIndices =>
        /\ ex_pc = "done" =>
             Len(ex_expanded) = Power(ex_ndim, Len(Signature(ex_lhs)))
        /\ ex_pc = "raised" => HasTripleIndex(ex_rhs) \/ HasTripleIndex(ex_lhs)

C6_Witness ==
    /\ ex_pc = "done"
    /\ SameFreeIndices
    /\ ex_ndim = 3
    /\ ex_rhs.kind = "Mul"
    /\ Len(Written(ex_rhs)) = 4
    /\ Len(Signature(ex_lhs)) = 2
    /\ Len(ex_expanded) = 9

\* the n-th coordinate tuple of rank k, the last coordinate varying fastest
RowMajorTuple(n, k, ndim) ==
    [p \in 1..k |-> ((n - 1) \div Power(ndim, k - p)) % ndim]

\* C7: the n-th equation of `expanded` is the one of the n-th coordinate
\* tuple of the lhs shape in row-major order.
C7_RowMajorOrder ==
    ex_pc = "done" /\ ex_eval_lhs.val.arr =>
        \A n \in 1..Len(ex_expanded) :
            LET t == RowMajorTuple(n, Rank(ex_eval_lhs.val), ex_ndim)
            IN  ex_expanded[n] = Eq(Scalar(ex_eval_lhs.val.data[t]),
                                    Scalar(ex_eval_rhs.val.data[t]))

C7_Witness ==
    /\ ex_pc = "done"
    /\ ex_ndim = 3
    /\ Rank(ex_eval_lhs.val) = 2
    /\ ex_lhs = Indexed("tau", <<"i", "j">>)
    /\ ex_expanded[2].lhs = Scalar(PAtom(Atom("tau", <<0, 1>>)))
    /\ ex_expanded[4].lhs = Scalar(PAtom(Atom("tau", <<1, 0>>)))

\* C8: when the evaluated sides have different shapes (different rank, or
\* one a scalar and the other an array) the expansion fails and emits no
\* equation.
C8_ShapeMismatchFails ==
    ex_pc = "done" =>
        /\ ex_eval_lhs.val.arr = ex_eval_rhs.val.arr
        /\ ex_eval_lhs.val.shape = ex_eval_rhs.val.shape

\* the value of an index under an assignment of coordinates to index names
EntryAt(arrays, factor, s) ==
    IF factor.kind = "Integer" THEN PConst(factor.val)
    ELSE arrays[factor].data[[p \in 1..Len(factor.indices) |->
                                 s[factor.indices[p]]]]

RECURSIVE ProductAt(_, _, _)
ProductAt(arrays, args, s) ==
    IF args = <<>> THEN PConst(1)
    ELSE PMul(EntryAt(arrays, Head(args), s), ProductAt(arrays, Tail(args), s))

RECURSIVE SumOfProducts(_, _, _)
SumOfProducts(arrays, args, S) ==
    IF S = {} THEN PConst(0)
    ELSE LET s == CHOOSE s \in S : TRUE
         IN  PAdd(ProductAt(arrays, args, s),
                  SumOfProducts(arrays, args, S \ {s}))

\* the Einstein sum of a product at the coordinates t of its free indices:
\* the sum, over the values of the indices written twice, of the products
\* of the entries of the factors
EinsteinSum(arrays, e, free, t, ndim) ==
    SumOfProducts(arrays, e.args,
        {s \in [IndexNames -> 0..(ndim - 1)] :
            /\ \A p \in 1..Len(free) : s[free[p]] = t[p]
            /\ \A x \in IndexNames : TimesWritten(e, x) = 0 => s[x] = 0})

\* C9: an index written exactly twice among the factors of a product is
\* not free in the result; the indices written once are free, in the order
\* in which they are written; and, no index being written more than twice,
\* they are the only free indices and the entries of the result are the
\* Einstein sums of the product.
C9_SummationElimination ==
    RhsEvaluated /\ ex_rhs.kind = "Mul" =>
        LET free == ex_eval_rhs.ind
        IN  /\ \A x \in IndexNames :
                 TimesWritten(ex_rhs, x) = 2 => x \notin Range(free)
            /\ SelectSeq(free, LAMBDA x : TimesWritten(ex_rhs, x) = 1)
                 = SelectSeq(Written(ex_rhs),
                             LAMBDA x : TimesWritten(ex_rhs, x) = 1)
            /\ ex_eval_rhs.none = (free = <<>>)
            /\ ~HasTripleIndex(ex_rhs) =>
                 /\ \A x \in Range(free) : TimesWritten(ex_rhs, x) = 1
                 /\ ex_eval_rhs.val.shape = [p \in 1..Len(free) |-> ex_ndim]
                 /\ ex_eval_rhs.val.arr = (free # <<>>)
                 /\ \A t \in TupleSet(ex_eval_rhs.val.shape) :
                      ex_eval_rhs.val.data[t]
                        = EinsteinSum(ex_arrays, ex_rhs, free, t, ex_ndim)

C9_Witness ==
    /\ RhsEvaluated
    /\ ex_ndim = 3
    /\ ex_rhs = Mul(<<Indexed("u", <<"i">>), Indexed("v", <<"i">>)>>)
    /\ ex_eval_rhs.none
    /\ ex_eval_rhs.val =
         Scalar(PAdd(PAdd(PMul(PAtom(Atom("u", <<0>>)), PAtom(Atom("v", <<0>>))),
                          PMul(PAtom(Atom("u", <<1>>)), PAtom(Atom("v", <<1>>)))),
                     PMul(PAtom(Atom("u", <<2>>)), PAtom(Atom("v", <<2>>)))))

\* C10: a product that writes an index three times or more is rejected,
\* by the index-signature computation and by the evaluation.
C10_TripleIndexRejected ==
    ex_pc \notin {"atoms", "rhs"} /\ HasTripleIndex(ex_rhs) =>
        /\ ex_pc = "raised"
        /\ get_index_structure(ex_rhs).err


(***************************************************************************)
(* Sums and powers.                                                        *)
(***************************************************************************)
\* the rhs step has acted on the equation (materialization did not fail)
RhsTried == ex_pc \in {"lhs", "emit", "done", "raised"} /\ ex_arrays # <<>>

\* the evaluation of the rhs (its signature included) raised
RhsRejected ==
    ex_pc = "raised" /\ ex_arrays # <<>> /\ ex_eval_rhs = NoEvaluation

AddendSignatures(e) ==
    [k \in 1..Len(e.args) |-> get_index_structure(e.args[k])]

\* every addend has an index signature of its own
AddendsSigned(e) ==
    \A k \in 1..Len(e.args) : ~AddendSignatures(e)[k].err

\* all addends have the same set of free indices (an addend without
\* indices agrees only with addends without indices)
AddendsAgree(e) ==
    LET sigs == AddendSignatures(e)
    IN  \A k \in 1..Len(sigs) :
            /\ sigs[k].none = sigs[1].none
            /\ Range(sigs[k].ind) = Range(sigs[1].ind)

C12_PowerRules ==
    ex_rhs.kind = "Pow" /\ RhsTried =>
        LET base == ex_rhs.args[1]
            e == ex_rhs.args[2]
            sig == get_index_structure(base)
            indexed == ~sig.err /\ ~sig.none
            plain == ~sig.err /\ sig.none
        IN  /\ AtomsIndexed(e) # {} => RhsRejected
            /\ indexed /\ e # Integer(2) => RhsRejected
            /\ indexed /\ e = Integer(2) =>
                 /\ ~RhsRejected
                 /\ get_index_structure(ex_rhs) = None
                 /\ ex_eval_rhs.ind = <<>>
            /\ plain /\ AtomsIndexed(e) = {} =>
                 /\ ~RhsRejected
                 /\ get_index_structure(ex_rhs) = None
                 /\ ex_eval_rhs.ind = <<>>
            /\ (RhsRejected) <=> get_index_structure(ex_rhs).err

\* the arrays of the leaves as they were materialized
Materialized == [leaf \in DOMAIN ex_arrays |-> ndimarray(leaf, ex_ndim)]

RECURSIVE SumOfSquares(_, _)
SumOfSquares(B, tuples) ==
    IF tuples = {} THEN PConst(0)
    ELSE LET t == CHOOSE t \in tuples : TRUE
         IN  PAdd(PMul(B.data[t], B.data[t]), SumOfSquares(B, tuples \ {t}))

\* C13: the square of an indexed base evaluates to the scalar that is the
\* sum, over every coordinate tuple of the base, of the product of the entry
\* with itself, and its list of free indices is empty.
C13_SquareContracts ==
    /\ RhsEvaluated
    /\ ex_rhs.kind = "Pow"
    /\ ex_rhs.args[2] = Integer(2)
    /\ ~get_index_structure(ex_rhs.args[1]).none
    => LET B == evaluate_Indexed_expression(ex_rhs.args[1], Materialized).val
       IN  /\ ex_eval_rhs.val = Scalar(SumOfSquares(B, TupleSet(B.shape)))
           /\ ~ex_eval_rhs.none
           /\ ex_eval_rhs.ind = <<>>

C13_Witness ==
    /\ RhsEvaluated
    /\ ex_ndim = 3
    /\ ex_rhs = Pow(u_i, Integer(2))
    /\ ex_eval_rhs.val =
         Scalar(PAdd(PAdd(PMul(PAtom(Atom("u", <<0>>)), PAtom(Atom("u", <<0>>))),
                          PMul(PAtom(Atom("u", <<1>>)), PAtom(Atom("u", <<1>>)))),
                     PMul(PAtom(Atom("u", <<2>>)), PAtom(Atom("u", <<2>>)))))

\* the addends of the rhs, each evaluated on the materialized arrays
AddendEvals ==
    [k \in 1..Len(ex_rhs.args) |->
        evaluate_Indexed_expression(ex_rhs.args[k], Materialized)]

\* addend k reports the index order of the leading addend
SameOrder(A, k) == A[k].none = A[1].none /\ A[k].ind = A[1].ind

\* addend k is of rank 2 and reports the reverse of the leading order
ReversedPair(A, k) ==
    /\ ~A[1].none
    /\ ~A[k].none
    /\ Len(A[k].ind) = 2
    /\ A[k].ind # A[1].ind
    /\ A[k].ind = Reverse(A[1].ind)

\* the entry that addend k contributes at the coordinates t of the result
AddendEntry(A, k, t) ==
    IF SameOrder(A, k) THEN A[k].val.data[t]
    ELSE A[k].val.data[<<t[2], t[1]>>]

RECURSIVE SumOfAddends(_, _, _)
SumOfAddends(A, k, t) ==
    IF k = 0 THEN PConst(0)
    ELSE PAdd(SumOfAddends(A, k - 1, t), AddendEntry(A, k, t))

\* the leading addend is a leaf of the dictionary that is an addend again
\* after a reversed addend has been added into it
LeadingLeafReused(A) ==
    /\ A[1].alias # <<>>
    /\ \E k \in 2..Len(A), m \in 3..Len(A) :
         k < m /\ ReversedPair(A, k) /\ ex_rhs.args[m] = ex_rhs.args[1]

Contracted == Range(ac_tensor) \ Range(ac_outer)

\* the call is one the contraction is defined for: the outer indices are
\* the symbols of tensor_indices that occur once, every other symbol occurs
\* exactly twice
PairsOnly ==
    /\ \A x \in Contracted : Occurrences(ac_tensor, x) = 2
    /\ \A x \in Range(ac_outer) : Occurrences(ac_tensor, x) = 1
    /\ \A x \in Range(ac_outer) : Occurrences(ac_outer, x) = 1

\* the axes of tensor_indices that remain, in their original order
RemainingAxes ==
    SelectSeq([p \in 1..Len(ac_tensor) |-> p],
              LAMBDA p : ac_tensor[p] \in Range(ac_outer))

RECURSIVE SumOverAssignments(_, _)
SumOverAssignments(S, t) ==
    IF S = {} THEN PConst(0)
    ELSE LET s == CHOOSE s \in S : TRUE
             full == [p \in 1..Len(ac_tensor) |->
                        IF ac_tensor[p] \in Contracted THEN s[ac_tensor[p]]
                        ELSE t[CHOOSE q \in 1..Len(RemainingAxes) :
                                  RemainingAxes[q] = p]]
         IN  PAdd(ac_array.data[full], SumOverAssignments(S \ {s}, t))

\* C16: apply_contraction_indexed sums the array over the two axes of every
\* symbol of tensor_indices that is not an outer index and occurs exactly
\* twice; the result has the rank len(outer_indices), its axes are the axes
\* of the outer indices in their original order, and the array is returned
\* unchanged when there is no symbol to contract.
C16_ContractionOfPairs ==
    ac_pc = "return" /\ PairsOnly =>
        /\ ~ac_out.err
        /\ Rank(ac_out) = Len(ac_outer)
        /\ Rank(ac_out) = Len(ac_tensor) - 2 * Cardinality(Contracted)
        /\ ac_out.shape = [q \in 1..Len(RemainingAxes) |-> ac_ndim]
        /\ \A t \in TupleSet(ac_out.shape) :
             ac_out.data[t]
               = SumOverAssignments([Contracted -> 0..(ac_ndim - 1)], t)
        /\ Contracted = {} => ac_out = ac_array

C16_Witness ==
    /\ ac_pc = "return"
    /\ ac_ndim = 2
    /\ ac_tensor = <<"i", "j", "k", "j">>
    /\ ac_outer = <<"i", "k">>
    /\ ac_out.shape = <<2, 2>>
    /\ ac_out.data[<<0, 1>>]
         = PAdd(PAtom(Atom("A", <<0, 0, 1, 0>>)),
                PAtom(Atom("A", <<0, 1, 1, 1>>)))

(***************************************************************************)
(* The Kronecker delta and the Levi-Civita symbol.                         *)
(***************************************************************************)
\* C14: the array materialized for a Kronecker delta has the shape
\* (ndim, ndim), and its entry (i, j) is 1 when i = j and 0 otherwise.
C14_KroneckerDeltaArray ==
    \A leaf \in DOMAIN ex_arrays :
        leaf.kind = "Indexed" /\ leaf.base = "KD" =>
            /\ ex_arrays[leaf].shape = <<ex_ndim, ex_ndim>>
            /\ DOMAIN ex_arrays[leaf].data
                 = {<<i, j>> : i \in 0..(ex_ndim - 1), j \in 0..(ex_ndim - 1)}
            /\ \A i \in 0..(ex_ndim - 1), j \in 0..(ex_ndim - 1) :
                 ex_arrays[leaf].data[<<i, j>>]
                   = IF i = j THEN PConst(1) ELSE PConst(0)

C14_Witness ==
    /\ ex_ndim = 3
    /\ Indexed("KD", <<"i", "j">>) \in DOMAIN ex_arrays
    /\ ex_arrays[Indexed("KD", <<"i", "j">>)].data[<<2, 2>>] = PConst(1)
    /\ ex_arrays[Indexed("KD", <<"i", "j">>)].data[<<2, 0>>] = PConst(0)

EvenPermutations == {<<0, 1, 2>>, <<1, 2, 0>>, <<2, 0, 1>>}

OddPermutations == {<<0, 2, 1>>, <<2, 1, 0>>, <<1, 0, 2>>}

\* the parity of a triple as a permutation of (0, 1, 2)
Parity(t) ==
    IF t \in EvenPermutations THEN 1
    ELSE IF t \in OddPermutations THEN -1
    ELSE 0

\* C15: the array materialized for a Levi-Civita symbol (it exists only at
\* ndim = 3) has 27 entries, each the permutation parity of its index
\* triple: 6 of them are not zero and 21 are zero.
C15_LeviCivitaArray ==
    \A leaf \in DOMAIN ex_arrays :
        leaf.kind = "Indexed" /\ leaf.base = "LC" =>
            LET data == ex_arrays[leaf].data
            IN  /\ ex_ndim = 3
                /\ Cardinality(DOMAIN data) = 27
                /\ \A t \in DOMAIN data : data[t] = PConst(Parity(t))
                /\ Cardinality({t \in DOMAIN data : data[t] # PConst(0)}) = 6
                /\ Cardinality({t \in DOMAIN data : data[t] = PConst(0)}) = 21

C15_Witness ==
    /\ ex_ndim = 3
    /\ LC_i_j_k \in DOMAIN ex_arrays
    /\ ex_arrays[LC_i_j_k].data[<<1, 2, 0>>] = PConst(1)
    /\ ex_arrays[LC_i_j_k].data[<<2, 1, 0>>] = PConst(-1)
    /\ ex_arrays[LC_i_j_k].data[<<2, 2, 0>>] = PConst(0)

(***************************************************************************)
(* The materialization of the leaves and of the Function nodes.            *)
(***************************************************************************)
\* the position of a Function node in the order of the entries, 0 if none
EntryOf(fn) ==
    IF fn \in Range(mt_order)
    THEN CHOOSE p \in 1..Len(mt_order) : mt_order[p] = fn
    ELSE 0

\* C19: every Function node gets its entry exactly once and in dependency
\* order: the Kronecker deltas and Levi-Civita symbols first, then the
\* functions without a nested Function, and a function with nested
\* Functions only after each of them has its entry; whatever the depth of
\* the nesting and the order in which the set of functions is iterated, no
\* function is reached before the functions nested in it.
C19_DependencyOrder ==
    /\ Cardinality(Range(mt_order)) = Len(mt_order)
    /\ Range(mt_order) = mt_dict
    /\ \A fn \in mt_dict : \A inner \in fn.sub :
         EntryOf(inner) # 0 /\ EntryOf(inner) < EntryOf(fn)
    /\ \A fn \in mt_dict, gn \in mt_dict :
         /\ fn.func \in {"KD", "LC"} /\ gn.func \notin {"KD", "LC"}
              => EntryOf(fn) < EntryOf(gn)
         /\ ~Nested(fn) /\ Nested(gn) => EntryOf(fn) < EntryOf(gn)
    /\ mt_pc = "evaluate" => mt_dict = mt_fns
    /\ mt_pc # "KeyError"

\* the argument tuple the claim expects: x0 .. x(ndim-1), then t
ImplicitArguments ==
    [p \in 1..(mt_ndim + 1) |->
        IF p <= mt_ndim THEN Atom("x", <<p - 1>>) ELSE Atom("t", <<>>)]

\* C20: whichever coordinate leaves the equation contains (none, an indexed
\* spatial coordinate, only the time symbol t), the expansion builds the
\* tuple of the ndim spatial coordinates followed by t, ndim + 1 entries,
\* and every field leaf that is not constant is made a function of it.
C20_ImplicitArgumentTuple ==
    mt_pc \notin {"idle", "coordinates"} =>
        /\ mt_pc # "UnboundLocalError"
        /\ Len(mt_coordinates) = mt_ndim + 1
        /\ mt_coordinates = ImplicitArguments
        /\ mt_pc # "terms" =>
             \A atom \in mt_atoms :
                ~is_constant(atom) /\ atom.base # "" =>
                    /\ atom \in DOMAIN mt_fields
                    /\ mt_fields[atom] = ImplicitArguments

(***************************************************************************)
(* The order of the two evaluations.                                       *)
(***************************************************************************)
\* C23 as stated: the lhs is evaluated before the rhs, so whenever the rhs
\* has been evaluated the lhs has been too.
C23_LhsBeforeRhs ==
    ex_eval_rhs # NoEvaluation => ex_eval_lhs # NoEvaluation

\* C23, amended: the rhs is evaluated first (line 424) and the lhs after it
\* (line 425); the lhs is evaluated only when the rhs was evaluated without
\* an error.
C23_RhsBeforeLhs ==
    /\ ex_eval_lhs # NoEvaluation => ex_eval_rhs # NoEvaluation
    /\ ex_pc = "lhs" => ex_eval_rhs # NoEvaluation /\ ex_eval_lhs = NoEvaluation

\* the rhs, a product, is evaluated and the lhs is not yet
C23_Witness ==
    /\ ex_pc = "lhs"
    /\ ex_rhs.kind = "Mul"
    /\ ex_eval_rhs # NoEvaluation
    /\ ex_eval_lhs = NoEvaluation

(***************************************************************************)
(* The dictionary of arrays during the evaluations.                        *)
(***************************************************************************)
\* C25: evaluating an expression never modifies an array of the
\* dictionary: after the evaluation of a side, the sum with a reversed
\* rank-2 addend included, every array of the dictionary has the entries
\* the materialization gave it.
C25_DictionaryUnchanged ==
    ex_pc \in {"lhs", "emit", "done"} => ex_arrays = Materialized

(***************************************************************************)
(* The pairing of the two sides in the emitted equations.                  *)
(***************************************************************************)
\* the position of an index symbol in a signature
IndexPosition(signature, index) ==
    CHOOSE p \in 1..Len(signature) : signature[p] = index

\* the coordinate tuple of the rhs array under the assignment that gives
\* the lhs signature the values of the tuple `ind`
RhsTuple(ind) ==
    [q \in 1..Len(ex_eval_rhs.ind) |->
        ind[IndexPosition(ex_eval_lhs.ind, ex_eval_rhs.ind[q])]]

\* the two sides have the same free indices, each once, in any order
SameIndexSet ==
    /\ Len(ex_eval_lhs.ind) = Len(ex_eval_rhs.ind)
    /\ Range(ex_eval_lhs.ind) = Range(ex_eval_rhs.ind)
    /\ Cardinality(Range(ex_eval_lhs.ind)) = Len(ex_eval_lhs.ind)

\* C26: every emitted equation uses one assignment of values to the free
\* indices on both sides: with the same free indices in another order on
\* the rhs, the equation of the lhs tuple pairs the lhs entry with the rhs
\* entry at which each index has the value it has on the lhs, not with the
\* rhs entry at the same array position.
C26_ConsistentAssignment ==
    ex_pc = "done" /\ IsArray(ex_eval_lhs.val) /\ SameIndexSet =>
        LET inds == ndindex(ex_eval_lhs.val.shape)
        IN  \A n \in 1..Len(inds) :
                ex_expanded[n] =
                    Eq(Scalar(ex_eval_lhs.val.data[inds[n]]),
                       Scalar(ex_eval_rhs.val.data[RhsTuple(inds[n])]))

(***************************************************************************)
(* The split of a coordinate tuple.                                        *)
(***************************************************************************)
\* where the slice of the k-th member starts: the index counts before it
SliceStart(k) == IndexTotal(SubSeq(IndexCount(sp_arrays), 1, k - 1))

\* C24: split_index gives every indexed sub-term occurrence, the target
\* first and then each direction, the consecutive slice of the coordinate
\* tuple whose length is its number of indices and which starts where the
\* slice of the occurrence before it ended; the slices are disjoint and
\* cover the tuple, also when one indexed sub-term occurs more than once.
C24_ConsecutiveSlices ==
    sp_pc = "done" =>
        /\ SliceStart(Len(sp_arrays) + 1) = Len(sp_index)
        /\ \A k \in 1..Len(sp_arrays) :
             IndexCount(sp_arrays)[k] > 0 =>
                /\ sp_arrays[k] \in DOMAIN sp_split
                /\ sp_split[sp_arrays[k]] =
                     SubSeq(sp_index, SliceStart(k) + 1,
                            SliceStart(k) + IndexCount(sp_arrays)[k])

(***************************************************************************)
(* The order of the constants.                                             *)
(***************************************************************************)
\* the names that can be computed from the inputs: the inputs, and the
\* constants whose requirements can be computed
RECURSIVE ComputableFrom(_)
ComputableFrom(names) ==
    LET more == {const.name : const \in
                    {c \in Range(sc_dict) : c.requires \subseteq names}}
    IN  IF more \subseteq names THEN names ELSE ComputableFrom(names \cup more)

Computable ==
    ComputableFrom({const.name : const \in {c \in Range(sc_dict) : c.is_input}})

\* C27: the list returned holds every constant once, the inputs first, and
\* every constant that is no input after the constants it requires; no
\* constant that can be computed from the inputs is dropped.
C27_EveryConstantInOrder ==
    sc_pc = "done" =>
        /\ \A a, b \in 1..Len(sc_known) :
             sc_known[a] = sc_known[b] => a = b
        /\ \A a, b \in 1..Len(sc_known) :
             sc_known[a].is_input /\ ~sc_known[b].is_input => a < b
        /\ \A b \in 1..Len(sc_known) :
             ~sc_known[b].is_input =>
                \A req \in sc_known[b].requires :
                    \E a \in 1..(b - 1) : sc_known[a].name = req
        /\ \A const \in Range(sc_dict) :
             const.name \in Computable => const \in Range(sc_known)

\* C28: sort_constants terminates for every constants dictionary, also
\* when a constant requires a name that is in no dictionary or when the
\* requirements form a cycle.
C28_Terminates == <>(sc_pc = "done")

(***************************************************************************)
(* The order of the equation classes.                                      *)
(***************************************************************************)
\* the classes of a list that are no ConstituentRelations, in its order
Others(list) == SelectSeq(list, LAMBDA eq : ~eq.cr)

\* C29: after set_equations the list is a permutation of the list passed
\* in, every ConstituentRelations instance precedes every other class, and
\* the other classes keep their relative order, for any number and any
\* position of the ConstituentRelations instances.
C29_ConstituentRelationsFirst ==
    se_pc = "done" =>
        /\ Len(se_list) = Len(se_input)
        /\ \A eq \in Range(se_input) :
             Cardinality({p \in 1..Len(se_list) : se_list[p] = eq}) = 1
        /\ \A a, b \in 1..Len(se_list) :
             se_list[a].cr /\ ~se_list[b].cr => a < b
        /\ Others(se_list) = Others(se_input)

\* two ConstituentRelations instances, both behind another class, and two
\* other classes between which one of them stood
C29_Witness ==
    /\ se_pc = "done"
    /\ Cardinality({p \in 1..Len(se_input) : se_input[p].cr}) >= 2
    /\ Len(Others(se_input)) >= 2
    /\ ~se_input[1].cr
    /\ \E a, b, c \in 1..Len(se_input) :
         a < b /\ b < c /\ ~se_input[a].cr /\ se_input[b].cr /\ ~se_input[c].cr

(***************************************************************************)
(* The kernel counter.                                                     *)
(***************************************************************************)
\* C30: in any sequence of operations from the construction on, neither
\* counter is negative, increase_kernel_counter adds exactly 1 to
\* kernel_counter, stored_counter changes in store_kernel_counter only, and
\* after reset_kernel_to_stored kernel_counter is the value it had at the
\* last store_kernel_counter (0 if there was none), whatever increases and
\* resets came in between.
C30_CounterContract ==
    [][/\ kc_kernel_counter' >= 0
       /\ kc_stored_counter' >= 0
       /\ kc_last' = "increase_kernel_counter" =>
            kc_kernel_counter' = kc_kernel_counter + 1
       /\ kc_stored_counter' # kc_stored_counter =>
            kc_last' = "store_kernel_counter"
       /\ kc_last' = "reset_kernel_to_stored" =>
            kc_kernel_counter' = kc_at_store]_vars

\* reset_kernel_to_stored has just brought back a stored value of 2 or more
C30_Witness ==
    /\ kc_last = "reset_kernel_to_stored"
    /\ kc_at_store >= 2
    /\ kc_kernel_counter = kc_at_store
    /\ kc_stored_counter = kc_at_store

=============================================================================
